---------------------------- MODULE Spec2Model ----------------------------
(***************************************************************************)
(* Hand2Word: the stream-processing spine.                                 *)
(*                                                                         *)
(*   word-resolver-service: the letters-stream consumer loop               *)
(*     (kinesis_consumer.py), the commit engine (commit_engine.py) and the *)
(*     session store bindings (redis_manager.py).                          *)
(*   letter-model-service: the per-shard enhanced fan-out subscription     *)
(*     loop and its retry delay (main.py), the hand selection and the      *)
(*     classification of a frame (asl_service.py), the shard threads on    *)
(*     the one interpreter (keypoint_classifier.py).                       *)
(*   iac/lambda/ingress_handler.py: the WebSocket ingress, one Lambda      *)
(*     invocation per frame.                                               *)
(*   iac/lambda/kb-submit, kb-ingest: the offline path from an upload to   *)
(*     the terms-ready notification.                                       *)
(*   iac/lambda/kb-aliases: validation, scoring and persistence of the     *)
(*     aliases the LLM proposes.                                           *)
(*   word-resolver-service: the lexicon search and its ranking             *)
(*     (word_resolver.py).                                                 *)
(*                                                                         *)
(* Units.  Time is in milliseconds (the code holds seconds as floats and   *)
(* multiplies by 1000 where it compares with the *_ms settings).           *)
(* Confidence is in hundredths (0.3 is 30), so that sums and averages are  *)
(* exact integers; the float rounding of Python's sums is not modelled.    *)
(* The 300 s expiry of the Redis keys lies beyond every run kept here.     *)
(* A string of the alias builder is the sequence of its characters.  A     *)
(* confusion probability or score is in millionths, rounded down; a stored *)
(* alias confidence is in thousandths (round(score, 3)).  A search score   *)
(* is in thousandths, a hybrid score in ten-thousandths (7 * atlas +       *)
(* 3 * alias for 0.7 * atlas + 0.3 * alias).  A landmark magnitude is in   *)
(* thousandths (0.01 is 10), a retry delay in tenths of a second.          *)
(***************************************************************************)
EXTENDS Integers, Sequences, FiniteSets, TLC

\* ------------------------------------------------------------------------
\* Program constants
\* ------------------------------------------------------------------------
WindowDurationMs    == 300     \* settings.window_duration_ms
StabilityDurationMs == 200     \* settings.stability_duration_ms
PauseDurationMs     == 2000    \* settings.pause_duration_ms
MaxConsecutiveSame  == 1       \* settings.max_consecutive_same
MinConfidence       == 30      \* settings.min_confidence (0.3)
CommitMinConfidence == 40      \* CommitEngine.commit_min_confidence (0.4)
PauseCheckIntervalMs == 1000   \* run(): pause_check_interval = 1.0
LoopSleepMs         == 100     \* run(): time.sleep(0.1)
NoTime              == -1      \* WordBuffer.last_commit_time = None
NoSequence          == -1      \* continuation_sequence = None
NoOutput == [hand_sign_id |-> -1, confidence |-> 0]   \* no inference run yet

MinAliasLength   == 2        \* validate_alias: len(alias) < 2
MaxAliasLength   == 40       \* validate_alias: len(alias) > 40
MaxEditDistance  == 2        \* levenshtein_distance(...) > 2
MinAliasScore    == 500000   \* validate_alias: score < 0.5
LowConfusionProb == 300000   \* conf_prob < 0.3
KnownConfusionBaseline == 400000   \* max(conf_prob, 0.4)
MaxAliasesPerSurface == 50   \* alias_list[:50]
AutocompleteMaxLength == 3   \* use_autocomplete = len(query) <= 3
AutocompleteMaxEdits  == 1   \* autocomplete: fuzzy maxEdits 1
FuzzyMaxEdits    == 2        \* settings.fuzzy_max_edits
AtlasLimit       == 20       \* '$limit': 20
AtlasWeight      == 7        \* atlas_score * 0.7
AliasWeight      == 3        \* alias_confidence * 0.3
BestAliasMaxDistance == 2    \* _find_best_matching_alias: distance <= 2
LandmarkCount         == 1662    \* values of one holistic frame
DedupeThresholdMs     == 250     \* the tests' dedupe threshold
HandActiveThreshold   == 10      \* abs(val) > 0.01, in thousandths
BaseDelay             == 20      \* base_delay = 2 s, in tenths
MaxRetryDelay         == 600     \* max_retry_delay = 60 s, in tenths
JitterPercent         == 10      \* exponential_delay * 0.1
TopResults       == 5        \* "top 5": all_search_results[:5]

\* ------------------------------------------------------------------------
\* Bounds of the model
\* ------------------------------------------------------------------------
MaxTime   == 3300    \* the clock stops here
MaxWindow == 3       \* observations kept in one session's window
MaxBatch  == 1       \* records returned by one get_records call
BurstEndMs == 600    \* prediction records arrive until here ...
ResumeMs   == 2900   \* ... and again from here on

EngineMaxTime   == 350   \* the clock of the commit-engine runs stops here
EngineMaxWindow == 4     \* observations kept in a window in those runs
HeldMaxTime     == 2500  \* the clock of the held-letter runs stops here

MaxRecords      == 3     \* landmark records put on the stream
MaxEventRecords == 2     \* records carried by one subscription event
MaxFailures     == 2     \* subscription calls and streams that fail

Sessions == {"s1"}
Chars    == {"A", "W"}
Confs    == {20, 30, 90}
Lags     == {0}          \* processing time minus the record's arrival time

\* The commit-engine runs: a finer clock, higher confidences
EngineClock == {t \in 0..EngineMaxTime : t % 50 = 0}
EngineConfs == {80, 90}

\* The shards of the landmarks stream
Shards == {"shardId-0", "shardId-1"}

\* The pipeline runs: two signing sessions, a letters stream of two shards
MaxFrames          == 2     \* frames a session sends
MaxGetRecordsFails == 1     \* get_records calls that fail
PipelineSessions == {"s1", "s2"}
LettersShards    == <<"shardId-0", "shardId-1">>   \* as describe_stream lists them
NoShard          == "none"

\* The offline runs: two uploads, each S3 event delivered up to twice, and
\* each completion notification delivered up to twice
MaxSubmits    == 2     \* S3 events for one upload
MaxReceives   == 2     \* deliveries of one SQS message
Uploads ==
    {[bucket |-> "kb-uploads", key |-> "u1/doc.pdf", etag |-> "e1"],
     [bucket |-> "kb-uploads", key |-> "u1/notes.txt", etag |-> "e2"]}
TextractJobIds == {"textract-1", "textract-2"}
NoMessage == "none"

\* The alias runs: a document of one term, and an LLM answer of one alias
\* of up to three characters for the term
MaxRawAliasLength == 3
MaxRawAliases     == 1
AliasChars  == {"A", "W", "6", "w", " ", "-", "\t"}
Whitespace  == {" ", "\t"}          \* what str.strip() removes
TermsReady ==
    {[job_id |-> "textract-1", user_id |-> "u1", terms |-> << <<"A", "W">> >>]}
AliasTerms == {<<"A", "W">>}
NoDocument == [surface |-> <<>>, aliases |-> <<>>, confidence_scores |-> <<>>,
               user_id |-> "", job_id |-> ""]

\* The validator runs: a surface of the reference cases and an alias of up
\* to four characters, or an alias of the reference cases
MaxValidatedLength == 4

\* The offline batches: an S3 event or an SQS event of up to two records
MaxOfflineBatch == 2
MaxInferences == 2       \* classifier calls begun in one run

\* The ingress runs: up to three messages on the sendlandmarks route
MaxMessages == 3

\* The classifier runs: a frame is its two hand blocks (pose and face are
\* not read), a block holds BlockValues values (63 in the service), in
\* thousandths
BlockValues == 2
Magnitudes  == {0, 10, -11}
ClassIds    == {10, 37}     \* a class of the labels, and one past them
ClassifierConfs == {20, 90}

\* The backoff runs: up to six subscription failures in a row
MaxRetryCount == 6

\* The letters runs: events of the classifier wait on the letters stream
\* and reach the commit engine later; the clock moves in 100 ms steps
\* through a burst, then over a silence longer than the pause
LettersBurstEndMs == 400
LettersResumeMs   == 2400
LettersMaxTime    == 2500
LettersMaxWindow  == 3
MaxQueued         == 2
LettersClock ==
    {t \in 0..LettersMaxTime :
        t % 100 = 0 /\ (t <= LettersBurstEndMs \/ t >= LettersResumeMs)}

\* The search runs: a lexicon of seven entries of two users, and up to two
\* words finalized
MaxResolved == 2
ResolverSessions == {"u1", "u2"}

VARIABLES
    now,               \* datetime.now() / time.time(), ms
    window,            \* Redis list  window:<session_id>
    word,              \* Redis value word:<session_id> (a WordBuffer)
    outbound,          \* payloads handed to the outbound Lambda, in order
    last_pause_check,  \* run(): last_pause_check
    batch,             \* records of the current get_records batch processed
    step,              \* what the loop did last (and whether a sweep emitted)
    deliveries,        \* the record delivered last, and how many times
    shutdown_flag,     \* main.py: the global shutdown_flag
    consumer,          \* status of the named stream consumer
    main_pc,           \* position of consume_and_process_efo / main
    stream,            \* per shard: sequence number of the newest record
    pc,                \* per shard: position of process_shard_with_efo_sync
    starting_position, \* per shard: starting_position
    retry_count,       \* per shard: retry_count
    continuation_sequence,  \* per shard: continuation_sequence
    cursor,            \* per shard: how far the live subscription has delivered
    records,           \* per shard: records of the event not yet looked at
    dispatched,        \* per shard: records handed to the classifier, in order
    failures,          \* failed calls and broken streams so far
    received,          \* per session: frames the WebSocket has delivered
    invocations,       \* ingress invocations that have not yet put their record
    landmarks_stream,  \* per shard: the records of the landmarks stream
    classified,        \* per shard: records the shard task has processed
    letters_stream,    \* per shard: the events of the letters stream
    run_pc,            \* position of KinesisConsumer.run
    run_step,          \* what KinesisConsumer.run did last
    shard_id,          \* run(): shard_id
    shard_iterator,    \* run(): shard_iterator, as a position in the shard
    consumer_shutdown_flag,  \* kinesis_consumer.py: the global shutdown_flag
    processed,         \* events handed to process_record, in order
    get_records_errors,  \* get_records calls that have failed
    submits,           \* per upload: S3 events handled by kb-submit
    textract_jobs,     \* Textract: the jobs started, in order
    kb_jobs_table,     \* DynamoDB: the items of the jobs table
    notifications,     \* SQS: completion notifications of Textract
    receive_count,     \* SQS: per message, how often it was delivered
    ingesting,         \* kb-ingest invocations past their checks
    materializations,  \* uploads + INGESTED + terms-ready, one entry each
    lexicon,           \* MongoDB: the lexicon, one document per surface
    aliases_bucket,    \* S3: per job, the aliases of its bundle
    resolved_words,    \* the ResolvedWords handed to the outbound worker
    session_state,     \* Redis of the resolver: per session, window and word
    lexicon_store_up,  \* whether MongoDB answers the resolver's searches
    acknowledgements,  \* ingress Lambda: body and status of each message
    ingress_records,   \* landmarks stream: the records the ingress Lambda put
    landmark_frame,    \* letter-model-service: the frame processed last
    classifier_calls,  \* calls of the keypoint classifier for that frame
    written,           \* events put on the letters stream for that frame
    frame_failure,     \* what failed while that frame was processed
    consecutive_failures,\* subscription loop: retry_count of one shard task
    retry_delay,       \* the delay slept last, in tenths of a second
    letters_queue,     \* letters stream: records not yet handed to process_record
    offline_batch,     \* kb-submit / kb-ingest: the event handled last
    offline_log,       \* what the handler did with each record it reached
    terms_ready_events,\* SNS: the jobs a terms-ready event was published for
    validation,        \* kb-aliases: the surface and alias validated last, and the answer
    interpreter,       \* the tensors of the one tf.lite.Interpreter
    classifier_threads,\* shard |-> where its thread is in KeyPointClassifier.__call__
    inferences         \* what the calls returned, in order of return

resolver == <<now, window, word, outbound, last_pause_check, batch, step,
              deliveries>>

efo == <<shutdown_flag, consumer, main_pc, stream, pc, starting_position,
         retry_count, continuation_sequence, cursor, records, dispatched,
         failures>>

pipeline == <<received, invocations, landmarks_stream, classified,
              letters_stream, run_pc, run_step, shard_id, shard_iterator,
              consumer_shutdown_flag, processed, get_records_errors>>

kb == <<submits, textract_jobs, kb_jobs_table, notifications, receive_count,
        ingesting, materializations>>

aliasing == <<lexicon, aliases_bucket>>

searching == <<resolved_words, session_state, lexicon_store_up>>

ingress == <<acknowledgements, ingress_records>>

classifying == <<landmark_frame, classifier_calls, written, frame_failure>>

backing_off == <<consecutive_failures, retry_delay>>

lettering == <<letters_queue>>

offline == <<offline_batch, offline_log, terms_ready_events>>

validating == <<validation>>

inferring == <<interpreter, classifier_threads, inferences>>

\* What the steps of the stream-processing spine leave alone
beyondSpine == <<pipeline, kb, aliasing, searching, ingress, classifying, backing_off, lettering, offline, validating, inferring>>

\* What the steps of the pipeline runs leave alone
beyondPipeline == <<resolver, efo, kb, aliasing, searching, ingress, classifying, backing_off, lettering, offline, validating, inferring>>

\* What the steps of the offline runs leave alone
beyondKb == <<resolver, efo, pipeline, aliasing, searching, ingress, classifying, backing_off, lettering, offline, validating, inferring>>

\* What the steps of the alias runs leave alone
beyondAliasing == <<resolver, efo, pipeline, kb, searching, ingress, classifying, backing_off, lettering, offline, validating, inferring>>

\* What the steps of the search runs leave alone
beyondSearching == <<resolver, efo, pipeline, kb, aliasing, ingress, classifying, backing_off, lettering, offline, validating, inferring>>

\* What the steps of the ingress runs leave alone
beyondIngress == <<resolver, efo, pipeline, kb, aliasing, searching, classifying, backing_off, lettering, offline, validating, inferring>>

\* What the steps of the classifier runs leave alone
beyondClassifying == <<resolver, efo, pipeline, kb, aliasing, searching, ingress, backing_off, lettering, offline, validating, inferring>>

\* What the steps of the backoff runs leave alone
beyondBackoff == <<resolver, efo, pipeline, kb, aliasing, searching, ingress, classifying, lettering, offline, validating, inferring>>

\* What the steps of the letters runs leave alone
beyondLettering == <<last_pause_check, batch, deliveries, efo, pipeline, kb, aliasing, searching, ingress, classifying, backing_off, offline, validating, inferring>>

\* What the steps of the offline batches leave alone
beyondOffline == <<submits, receive_count, ingesting, materializations, resolver, efo, pipeline, aliasing, searching, ingress, classifying, backing_off, lettering, validating, inferring>>

\* What the steps of the validator runs leave alone
beyondValidating == <<resolver, efo, pipeline, kb, aliasing, searching, ingress, classifying, backing_off, lettering, offline, inferring>>

\* What the shared classifier leaves alone
beyondInferring == <<resolver, efo, pipeline, kb, aliasing, searching, ingress, classifying, backing_off, lettering, offline, validating>>

vars == <<resolver, efo, pipeline, kb, aliasing, searching, ingress, classifying, backing_off, lettering, offline, validating, inferring>>

\* ------------------------------------------------------------------------
\* models.py
\* ------------------------------------------------------------------------
LetterEntry(char, confidence, timestamp) ==
    [char |-> char, confidence |-> confidence, timestamp |-> timestamp]

\* A WordBuffer as stored under word:<session_id>; present = FALSE is a
\* missing key.  created_at is written once and never read: it is left out.
NoBuffer ==
    [present |-> FALSE, user_id |-> "", letters |-> <<>>,
     last_commit_time |-> NoTime]

WordBuffer(user_id) ==
    [present |-> TRUE, user_id |-> user_id, letters |-> <<>>,
     last_commit_time |-> NoTime]

RECURSIVE Join(_)
\* WordBuffer.current_word: "".join(letters)
Join(letters) ==
    IF letters = <<>> THEN "" ELSE Head(letters) \o Join(Tail(letters))

\* WordBuffer.time_since_last_commit_ms at clock t (NoTime for None)
TimeSinceLastCommitMs(buffer, t) ==
    IF buffer.last_commit_time = NoTime THEN NoTime
    ELSE t - buffer.last_commit_time

NoCandidate ==
    [found |-> FALSE, char |-> "", aggregate_confidence |-> 0,
     first_seen |-> 0, last_seen |-> 0, count |-> 0]

\* CommitCandidate.stability_duration_ms
StabilityDurationOf(candidate) == candidate.last_seen - candidate.first_seen

ResolvedWord(buffer, session_id, search_method) ==
    [session_id |-> session_id, user_id |-> buffer.user_id,
     raw_word |-> Join(buffer.letters), search_method |-> search_method]

\* ------------------------------------------------------------------------
\* redis_manager.py
\* ------------------------------------------------------------------------
\* A push on the wrong end of the list (LPUSH)
PushLetter_Left(w, entry) == <<entry>> \o w

\* push_letter: RPUSH
PushLetter(w, entry) == Append(w, entry)

\* A prune that removes nothing
PruneWindow_KeepsAll(w, cutoff_timestamp) == w

RECURSIVE PruneWindow(_, _)
\* prune_window: LPOP while the leftmost entry is older than the cutoff
PruneWindow(w, cutoff_timestamp) ==
    IF w = <<>> THEN w
    ELSE IF Head(w).timestamp < cutoff_timestamp
         THEN PruneWindow(Tail(w), cutoff_timestamp)
         ELSE w

\* get_word_buffer: the stored buffer, or a new one saved under the key
GetWordBuffer(buffer, user_id) ==
    IF buffer.present THEN buffer ELSE WordBuffer(user_id)

\* append_to_word at clock t
AppendToWord(buffer, user_id, char, t) ==
    LET b == GetWordBuffer(buffer, user_id)
    IN  [b EXCEPT !.letters = Append(@, char), !.last_commit_time = t]


\* ------------------------------------------------------------------------
\* commit_engine.py
\* ------------------------------------------------------------------------
RECURSIVE SumConfidence(_, _)
\* char_data[c]['total_confidence'] over the entries of c
SumConfidence(entries, c) ==
    IF entries = <<>> THEN 0
    ELSE (IF Head(entries).char = c THEN Head(entries).confidence ELSE 0)
         + SumConfidence(Tail(entries), c)

RECURSIVE KeysInOrder(_, _)
\* char_data.keys(): the characters in the order of their first entry
KeysInOrder(entries, seen) ==
    IF entries = <<>> THEN <<>>
    ELSE IF Head(entries).char \in seen
         THEN KeysInOrder(Tail(entries), seen)
         ELSE <<Head(entries).char>>
              \o KeysInOrder(Tail(entries), seen \cup {Head(entries).char})

RECURSIVE MaxByTotal(_, _, _)
\* max(keys, key=total_confidence): the first key holding the largest total
MaxByTotal(keys, entries, best) ==
    IF keys = <<>> THEN best
    ELSE IF SumConfidence(entries, Head(keys)) > SumConfidence(entries, best)
         THEN MaxByTotal(Tail(keys), entries, Head(keys))
         ELSE MaxByTotal(Tail(keys), entries, best)

\* _find_top_candidate
FindTopCandidate(w) ==
    LET valid_entries == SelectSeq(w, LAMBDA e : e.confidence >= MinConfidence)
        keys     == KeysInOrder(valid_entries, {})
        top_char == MaxByTotal(Tail(keys), valid_entries, Head(keys))
        mine     == SelectSeq(valid_entries, LAMBDA e : e.char = top_char)
        stamps   == {mine[i].timestamp : i \in DOMAIN mine}
    IN  IF valid_entries = <<>> THEN NoCandidate
        ELSE [found |-> TRUE, char |-> top_char,
              aggregate_confidence |-> SumConfidence(valid_entries, top_char),
              first_seen |-> CHOOSE t \in stamps : \A u \in stamps : t <= u,
              last_seen  |-> CHOOSE t \in stamps : \A u \in stamps : t >= u,
              count |-> Len(mine)]

\* A confidence gate that lets every candidate through
PassesConfidenceGate_Open(candidate) == TRUE

\* step 5: avg_confidence = aggregate_confidence / count >= commit_min_confidence
PassesConfidenceGate(candidate) ==
    ~ (candidate.aggregate_confidence < CommitMinConfidence * candidate.count)

\* A stability gate that lets every candidate through
PassesStabilityGate_Open(candidate) == TRUE

\* step 6: stability_duration_ms >= stability_ms
PassesStabilityGate(candidate) ==
    ~ (StabilityDurationOf(candidate) < StabilityDurationMs)

\* An anti-repetition test that never fires
RepeatsLastLetters_Never(buffer, char) == FALSE

\* step 7: the last max_consecutive_same letters all equal the candidate
RepeatsLastLetters(buffer, char) ==
    /\ Len(buffer.letters) >= MaxConsecutiveSame
    /\ \A i \in (Len(buffer.letters) - MaxConsecutiveSame + 1)..Len(buffer.letters) :
          buffer.letters[i] = char

\* The session store as one value: st.window, st.word, st.outbound
\* (outbound is not in Redis; it rides along so that handlers compose).

\* process_letter at clock t
ProcessLetter(st, session_id, user_id, char, confidence, timestamp, t) ==
    LET pushed    == PushLetter(st.window[session_id],
                                LetterEntry(char, confidence, timestamp))
        pruned    == PruneWindow(pushed, t - WindowDurationMs)
        st1       == [st EXCEPT !.window[session_id] = pruned]
        candidate == FindTopCandidate(pruned)
        buffer    == GetWordBuffer(st.word[session_id], user_id)
    IN  IF pruned = <<>> THEN st1
        ELSE IF ~candidate.found THEN st1
        ELSE IF ~PassesConfidenceGate(candidate) THEN st1
        ELSE IF ~PassesStabilityGate(candidate) THEN st1
        ELSE IF RepeatsLastLetters(buffer, candidate.char)
             THEN [st1 EXCEPT !.word[session_id] = buffer]
        ELSE [st1 EXCEPT !.word[session_id] =
                 AppendToWord(buffer, user_id, candidate.char, t)]

\* A pause test that wants more than pause_duration_ms
CheckPause_Strict(buffer, t) ==
    LET b == GetWordBuffer(buffer, "temp")
        time_since_last == TimeSinceLastCommitMs(b, t)
    IN  IF b.letters = <<>> THEN FALSE
        ELSE IF time_since_last = NoTime THEN FALSE
        ELSE time_since_last > PauseDurationMs

\* check_pause at clock t: the value returned
CheckPause(buffer, t) ==
    LET b == GetWordBuffer(buffer, "temp")
        time_since_last == TimeSinceLastCommitMs(b, t)
    IN  IF b.letters = <<>> THEN FALSE
        ELSE IF time_since_last = NoTime THEN FALSE
        ELSE time_since_last >= PauseDurationMs

\* check_pause: what it leaves in the store (get_word_buffer saves a new,
\* empty buffer under the placeholder user id when the key is missing)
AfterCheckPause(st, session_id) ==
    [st EXCEPT !.word[session_id] = GetWordBuffer(@, "temp")]

\* ------------------------------------------------------------------------
\* kinesis_consumer.py
\* ------------------------------------------------------------------------
\* A finalization that leaves the window in place
FinalizeWord_KeepsWindow(st, session_id, search_method) ==
    LET buffer == GetWordBuffer(st.word[session_id], session_id)
    IN  IF buffer.letters = <<>>
        THEN [st EXCEPT !.word[session_id] = buffer]
        ELSE [st EXCEPT
                !.outbound = Append(@, ResolvedWord(buffer, session_id, search_method)),
                !.word[session_id] = NoBuffer]

\* A finalization that emits the word and leaves the buffer in place
FinalizeWord_KeepsBuffer(st, session_id, search_method) ==
    LET buffer == GetWordBuffer(st.word[session_id], session_id)
    IN  IF buffer.letters = <<>>
        THEN [st EXCEPT !.word[session_id] = buffer]
        ELSE [st EXCEPT
                !.outbound = Append(@, ResolvedWord(buffer, session_id, search_method)),
                !.word[session_id] = buffer,
                !.window[session_id] = <<>>]

\* _finalize_word
FinalizeWord(st, session_id, search_method) ==
    LET buffer == GetWordBuffer(st.word[session_id], session_id)
    IN  IF buffer.letters = <<>>
        THEN [st EXCEPT !.word[session_id] = buffer]
        ELSE [st EXCEPT
                !.outbound = Append(@, ResolvedWord(buffer, session_id, search_method)),
                !.word[session_id] = NoBuffer,
                !.window[session_id] = <<>>]

\* if self.commit_engine.check_pause(session_id): self._finalize_word(...)
PauseThenFinalize(st, session_id, search_method, t) ==
    IF CheckPause(st.word[session_id], t)
    THEN FinalizeWord(AfterCheckPause(st, session_id), session_id, search_method)
    ELSE AfterCheckPause(st, session_id)

\* A skip record that prunes the window before the pause test
ProcessSkipRecord_Prunes(st, session_id, t) ==
    PauseThenFinalize(
        [st EXCEPT !.window[session_id] = PruneWindow(@, t - WindowDurationMs)],
        session_id, "skip_event", t)

\* process_record, event_type == 'skip'
ProcessSkipRecord(st, session_id, t) ==
    PauseThenFinalize(st, session_id, "skip_event", t)

\* process_record, event_type == 'prediction'
ProcessPredictionRecord(st, session_id, char, confidence, timestamp, t) ==
    PauseThenFinalize(
        ProcessLetter(st, session_id, session_id, char, confidence, timestamp, t),
        session_id, "fuzzy", t)

\* A sweep that looks at no key
CheckKeys_NoSweep(st, keys, t) == st

RECURSIVE CheckKeys(_, _, _)
\* _check_all_sessions_for_pause: the loop over the scanned keys
CheckKeys(st, keys, t) ==
    IF keys = <<>> THEN st
    ELSE CheckKeys(PauseThenFinalize(st, Head(keys), "fuzzy", t), Tail(keys), t)

\* scan_iter("word:*") returns the existing keys in an order of its own
ScanOrders(st) ==
    LET present == {s \in Sessions : st.word[s].present}
    IN  {q \in [1..Cardinality(present) -> present] :
            \A i, j \in DOMAIN q : i # j => q[i] # q[j]}

Store == [window |-> window, word |-> word, outbound |-> outbound]

NoRecord ==
    [event_type |-> "none", session_id |-> "", prediction |-> "",
     confidence |-> 0, timestamp |-> 0]

\* A letters-stream record, as process_record reads it
PredictionRecord(session_id, char, confidence, timestamp) ==
    [event_type |-> "prediction", session_id |-> session_id,
     prediction |-> char, confidence |-> confidence, timestamp |-> timestamp]

\* StartingPosition values of subscribe_to_shard
Latest == [Type |-> "LATEST", SequenceNumber |-> NoSequence]

AfterSequenceNumber(sequence) ==
    [Type |-> "AFTER_SEQUENCE_NUMBER", SequenceNumber |-> sequence]

Init ==
    /\ now = 0
    /\ window = [s \in Sessions |-> <<>>]
    /\ word = [s \in Sessions |-> NoBuffer]
    /\ outbound = <<>>
    /\ last_pause_check = 0
    /\ batch = 0
    /\ step = "start"
    /\ deliveries = [record |-> NoRecord, count |-> 0]
    /\ shutdown_flag = FALSE
    /\ consumer = "NONE"
    /\ main_pc = "register"
    /\ stream = [sh \in Shards |-> 0]
    /\ pc = [sh \in Shards |-> "created"]
    /\ starting_position = [sh \in Shards |-> Latest]
    /\ retry_count = [sh \in Shards |-> 0]
    /\ continuation_sequence = [sh \in Shards |-> NoSequence]
    /\ cursor = [sh \in Shards |-> 0]
    /\ records = [sh \in Shards |-> <<>>]
    /\ dispatched = [sh \in Shards |-> <<>>]
    /\ failures = 0
    /\ received = [s \in PipelineSessions |-> 0]
    /\ invocations = {}
    /\ landmarks_stream = [sh \in Shards |-> <<>>]
    /\ classified = [sh \in Shards |-> 0]
    /\ letters_stream = [sh \in Shards |-> <<>>]
    /\ run_pc = "describe_stream"
    /\ run_step = "start"
    /\ shard_id = NoShard
    /\ shard_iterator = 0
    /\ consumer_shutdown_flag = FALSE
    /\ processed = <<>>
    /\ get_records_errors = 0
    /\ submits = [u \in Uploads |-> 0]
    /\ textract_jobs = <<>>
    /\ kb_jobs_table = {}
    /\ notifications = {}
    /\ receive_count = [job_id \in TextractJobIds |-> 0]
    /\ ingesting = {}
    /\ materializations = <<>>
    /\ lexicon = [surface \in AliasTerms |-> NoDocument]
    /\ aliases_bucket = [m \in TermsReady |-> <<>>]
    /\ resolved_words = <<>>
    /\ session_state =
          [s \in ResolverSessions |-> [window |-> <<>>, word |-> NoBuffer]]
    /\ lexicon_store_up = TRUE
    /\ acknowledgements = <<>>
    /\ ingress_records = <<>>
    /\ landmark_frame = [left |-> <<>>, right |-> <<>>]
    /\ classifier_calls = 0
    /\ written = <<>>
    /\ frame_failure = "none"
    /\ consecutive_failures = 0
    /\ retry_delay = 0
    /\ letters_queue = <<>>
    /\ offline_batch = [handler |-> "none", size |-> 0]
    /\ offline_log = <<>>
    /\ terms_ready_events = {}
    /\ validation = [surface |-> <<>>, alias |-> <<>>, is_valid |-> FALSE,
                     score |-> 0]
    /\ interpreter = [input |-> <<>>, output |-> NoOutput]
    /\ classifier_threads = [shard \in Shards |-> [pc |-> "idle", landmark_list |-> <<>>]]
    /\ inferences = <<>>

Install(st) ==
    /\ window' = st.window
    /\ word' = st.word
    /\ outbound' = st.outbound

\* The letters stream is quiet between the two bursts of predictions
Quiet(t) == t > BurstEndMs /\ t < ResumeMs

\* run(): one prediction record of the batch goes through process_record
HandlePrediction(session_id, char, confidence, lag) ==
    LET st == ProcessPredictionRecord(Store, session_id, char, confidence,
                                      now - lag, now)
    IN  /\ batch < MaxBatch
        /\ ~Quiet(now)
        /\ now - lag >= 0
        /\ Len(st.window[session_id]) <= MaxWindow
        /\ Install(st)
        /\ batch' = batch + 1
        /\ step' = "prediction"
        /\ UNCHANGED <<now, last_pause_check, deliveries, efo, beyondSpine>>

\* run(): one skip record of the batch goes through process_record
HandleSkip(session_id) ==
    /\ batch < MaxBatch
    /\ Install(ProcessSkipRecord(Store, session_id, now))
    /\ batch' = batch + 1
    /\ step' = "skip"
    /\ UNCHANGED <<now, last_pause_check, deliveries, efo, beyondSpine>>

\* run(): the batch is done, the periodic pause check is due; then sleep
CheckAllSessionsForPause ==
    /\ now - last_pause_check >= PauseCheckIntervalMs
    /\ now + LoopSleepMs <= MaxTime
    /\ \E keys \in ScanOrders(Store) : Install(CheckKeys(Store, keys, now))
    /\ last_pause_check' = now
    /\ now' = now + LoopSleepMs
    /\ batch' = 0
    /\ step' = IF outbound' # outbound THEN "sweep, finalized" ELSE "sweep"
    /\ UNCHANGED <<deliveries, efo, beyondSpine>>

\* run(): the batch is done, no pause check is due; sleep
Sleep ==
    /\ now - last_pause_check < PauseCheckIntervalMs
    /\ now + LoopSleepMs <= MaxTime
    /\ now' = now + LoopSleepMs
    /\ batch' = 0
    /\ step' = "sleep"
    /\ UNCHANGED <<window, word, outbound, last_pause_check, deliveries, efo, beyondSpine>>

Next ==
    \/ \E s \in Sessions, c \in Chars, p \in Confs, lag \in Lags :
          HandlePrediction(s, c, p, lag)
    \/ \E s \in Sessions : HandleSkip(s)
    \/ CheckAllSessionsForPause
    \/ Sleep

Spec == Init /\ [][Next]_vars

\* ------------------------------------------------------------------------
\* The commit engine alone: records reach process_record one at a time, at
\* most one new record per clock value, and the record delivered last may be
\* delivered once more (at-least-once delivery of the letters stream).  A run
\* holds one redelivery, so the state it meets was built by first deliveries.
\* ------------------------------------------------------------------------
\* process_record on a record of the stream at the current clock
DeliverRecord(record) ==
    LET st == ProcessPredictionRecord(Store, record.session_id,
                  record.prediction, record.confidence, record.timestamp, now)
    IN  /\ Len(st.window[record.session_id]) <= EngineMaxWindow
        /\ Install(st)
        /\ step' = "prediction"
        /\ UNCHANGED <<now, last_pause_check, batch, efo, beyondSpine>>

\* A new prediction record arrives and is processed
Deliver(session_id, char, confidence) ==
    /\ deliveries.count < 2
    /\ deliveries.count = 0 \/ deliveries.record.timestamp < now
    /\ DeliverRecord(PredictionRecord(session_id, char, confidence, now))
    /\ deliveries' = [record |-> PredictionRecord(session_id, char, confidence, now),
                      count |-> 1]

\* The record delivered last is delivered and processed a second time
Redeliver ==
    /\ deliveries.count = 1
    /\ DeliverRecord(deliveries.record)
    /\ deliveries' = [deliveries EXCEPT !.count = 2]

\* Time passes between two deliveries
Advance ==
    /\ \E t \in EngineClock :
          /\ t > now
          /\ \A u \in EngineClock : u > now => t <= u
          /\ now' = t
    /\ step' = "sleep"
    /\ UNCHANGED <<window, word, outbound, last_pause_check, batch, deliveries,
                   efo, beyondSpine>>

NextEngine ==
    \/ \E s \in Sessions, c \in Chars, p \in EngineConfs : Deliver(s, c, p)
    \/ Redeliver
    \/ Advance

SpecEngine == Init /\ [][NextEngine]_vars

\* ------------------------------------------------------------------------
\* The commit engine under a hand that keeps signing: a confident prediction
\* record may arrive at every 100 ms of the clock, through and beyond the
\* pause duration, and the periodic check may fall on any turn of the loop
\* ------------------------------------------------------------------------
HeldClock == {t \in 0..HeldMaxTime : t % 100 = 0}
HeldConf  == 90

\* A prediction record arrives and goes through process_record at once
Hold(session_id, char) ==
    /\ deliveries.count = 0 \/ deliveries.record.timestamp < now
    /\ DeliverRecord(PredictionRecord(session_id, char, HeldConf, now))
    /\ deliveries' = [record |-> PredictionRecord(session_id, char, HeldConf, now),
                      count |-> 1]

\* run(): _check_all_sessions_for_pause
held_sweep ==
    /\ \E keys \in ScanOrders(Store) : Install(CheckKeys(Store, keys, now))
    /\ step' = "sweep"
    /\ UNCHANGED <<now, last_pause_check, batch, deliveries, efo, beyondSpine>>

\* run(): time.sleep(0.1)
held_tick ==
    /\ now + LoopSleepMs \in HeldClock
    /\ now' = now + LoopSleepMs
    /\ step' = "sleep"
    /\ UNCHANGED <<window, word, outbound, last_pause_check, batch, deliveries,
                   efo, beyondSpine>>

NextHeld ==
    \/ \E s \in Sessions, c \in Chars : Hold(s, c)
    \/ held_sweep
    \/ held_tick

SpecHeld == Init /\ [][NextHeld]_vars

\* ------------------------------------------------------------------------
\* letter-model-service/main.py: the enhanced fan-out consumer.  Sequence
\* numbers of a shard are 1, 2, ...; position n is "after record n".
\* ------------------------------------------------------------------------
\* Where the service starts a subscription asked for at a starting position
SubscribedFrom(position, newest) ==
    IF position.Type = "LATEST" THEN newest ELSE position.SequenceNumber

\* The sequence numbers first+1 .. first+count, in order
RecordsAfter(first, count) == [i \in 1..count |-> first + i]

RECURSIVE Total(_, _)
Total(f, S) ==
    IF S = {} THEN 0
    ELSE LET x == CHOOSE y \in S : TRUE IN f[x] + Total(f, S \ {x})

\* An upstream producer puts a landmark record on the shard
Produce(sh) ==
    /\ Total(stream, Shards) < MaxRecords
    /\ stream' = [stream EXCEPT ![sh] = @ + 1]
    /\ UNCHANGED <<beyondSpine, resolver, shutdown_flag, consumer, main_pc, pc,
                   starting_position, retry_count, continuation_sequence,
                   cursor, records, dispatched, failures>>

\* SIGINT / SIGTERM
signal_handler ==
    /\ ~shutdown_flag
    /\ main_pc # "exited"
    /\ shutdown_flag' = TRUE
    /\ UNCHANGED <<beyondSpine, resolver, consumer, main_pc, stream, pc, starting_position,
                   retry_count, continuation_sequence, cursor, records,
                   dispatched, failures>>

\* consume_and_process_efo: the consumer is registered (or found), and one
\* task per shard is created
RegisterStreamConsumer ==
    /\ main_pc = "register"
    /\ consumer' = "ACTIVE"
    /\ pc' = [sh \in Shards |-> "while"]
    /\ main_pc' = "gather"
    /\ UNCHANGED <<beyondSpine, resolver, shutdown_flag, stream, starting_position,
                   retry_count, continuation_sequence, cursor, records,
                   dispatched, failures>>

\* The except branches of the subscription loop
OnSubscriptionError(sh) ==
    /\ failures < MaxFailures
    /\ failures' = failures + 1
    /\ IF ~shutdown_flag
       THEN /\ retry_count' = [retry_count EXCEPT ![sh] = @ + 1]
            /\ pc' = [pc EXCEPT ![sh] = "backoff"]
       ELSE /\ pc' = [pc EXCEPT ![sh] = "while"]
            /\ UNCHANGED retry_count

\* while not shutdown_flag: the flag is set, the task returns
LeaveLoop(sh) ==
    /\ pc[sh] = "while"
    /\ shutdown_flag
    /\ pc' = [pc EXCEPT ![sh] = "returned"]
    /\ UNCHANGED <<beyondSpine, resolver, shutdown_flag, consumer, main_pc, stream,
                   starting_position, retry_count, continuation_sequence,
                   cursor, records, dispatched, failures>>

\* while not shutdown_flag: subscribe_to_shard succeeds
SubscribeToShard(sh) ==
    /\ pc[sh] = "while"
    /\ ~shutdown_flag
    /\ cursor' = [cursor EXCEPT
                    ![sh] = SubscribedFrom(starting_position[sh], stream[sh])]
    /\ retry_count' = [retry_count EXCEPT ![sh] = 0]
    /\ continuation_sequence' = [continuation_sequence EXCEPT ![sh] = NoSequence]
    /\ pc' = [pc EXCEPT ![sh] = "events"]
    /\ UNCHANGED <<beyondSpine, resolver, shutdown_flag, consumer, main_pc, stream,
                   starting_position, records, dispatched, failures>>

\* while not shutdown_flag: subscribe_to_shard raises
SubscribeFails(sh) ==
    /\ pc[sh] = "while"
    /\ ~shutdown_flag
    /\ OnSubscriptionError(sh)
    /\ UNCHANGED <<beyondSpine, resolver, shutdown_flag, consumer, main_pc, stream,
                   starting_position, continuation_sequence, cursor, records,
                   dispatched>>

\* for event in response['EventStream']: an event with count records (none:
\* a heartbeat) arrives
ReceiveEvent(sh, count) ==
    /\ pc[sh] = "events"
    /\ cursor[sh] + count <= stream[sh]
    /\ IF shutdown_flag
       THEN /\ pc' = [pc EXCEPT ![sh] = "while"]
            /\ UNCHANGED <<continuation_sequence, cursor, records>>
       ELSE /\ records' = [records EXCEPT
                             ![sh] = RecordsAfter(cursor[sh], count)]
            /\ continuation_sequence' =
                   [continuation_sequence EXCEPT ![sh] = cursor[sh] + count]
            /\ cursor' = [cursor EXCEPT ![sh] = @ + count]
            /\ pc' = [pc EXCEPT ![sh] = IF count > 0 THEN "records" ELSE "events"]
    /\ UNCHANGED <<beyondSpine, resolver, shutdown_flag, consumer, main_pc, stream,
                   starting_position, retry_count, dispatched, failures>>

\* The record loop without its look at the flag
ProcessRecord_Unconditional(sh) ==
    /\ pc[sh] = "records"
    /\ dispatched' = [dispatched EXCEPT ![sh] = Append(@, Head(records[sh]))]
    /\ records' = [records EXCEPT ![sh] = Tail(@)]
    /\ pc' = [pc EXCEPT ![sh] = IF Len(records[sh]) > 1
                                THEN "records" ELSE "events"]
    /\ UNCHANGED <<beyondSpine, resolver, shutdown_flag, consumer, main_pc, stream,
                   starting_position, retry_count, continuation_sequence,
                   cursor, failures>>

\* for record in records: the next record of the event goes to
\* process_landmark_record, unless the flag is set
ProcessRecord(sh) ==
    /\ pc[sh] = "records"
    /\ IF shutdown_flag
       THEN /\ pc' = [pc EXCEPT ![sh] = "events"]
            /\ UNCHANGED <<records, dispatched>>
       ELSE /\ dispatched' = [dispatched EXCEPT
                                ![sh] = Append(@, Head(records[sh]))]
            /\ records' = [records EXCEPT ![sh] = Tail(@)]
            /\ pc' = [pc EXCEPT ![sh] = IF Len(records[sh]) > 1
                                        THEN "records" ELSE "events"]
    /\ UNCHANGED <<beyondSpine, resolver, shutdown_flag, consumer, main_pc, stream,
                   starting_position, retry_count, continuation_sequence,
                   cursor, failures>>

\* for event in response['EventStream']: the stream raises
StreamError(sh) ==
    /\ pc[sh] = "events"
    /\ OnSubscriptionError(sh)
    /\ UNCHANGED <<beyondSpine, resolver, shutdown_flag, consumer, main_pc, stream,
                   starting_position, continuation_sequence, cursor, records,
                   dispatched>>

\* for event in response['EventStream']: the stream ends (the subscription
\* expired); the next starting position is chosen
SubscriptionEnds(sh) ==
    /\ pc[sh] = "events"
    /\ starting_position' =
          [starting_position EXCEPT
             ![sh] = IF continuation_sequence[sh] # NoSequence /\ ~shutdown_flag
                     THEN AfterSequenceNumber(continuation_sequence[sh])
                     ELSE IF ~shutdown_flag THEN Latest ELSE @]
    /\ pc' = [pc EXCEPT ![sh] = "while"]
    /\ UNCHANGED <<beyondSpine, resolver, shutdown_flag, consumer, main_pc, stream,
                   retry_count, continuation_sequence, cursor, records,
                   dispatched, failures>>

\* time.sleep(retry_delay) is over
Backoff(sh) ==
    /\ pc[sh] = "backoff"
    /\ pc' = [pc EXCEPT ![sh] = "while"]
    /\ UNCHANGED <<beyondSpine, resolver, shutdown_flag, consumer, main_pc, stream,
                   starting_position, retry_count, continuation_sequence,
                   cursor, records, dispatched, failures>>

\* consume_and_process_efo: gather is back, the finally block deregisters
DeregisterStreamConsumer ==
    /\ main_pc = "gather"
    /\ \A sh \in Shards : pc[sh] = "returned"
    /\ consumer' = "DEREGISTERED"
    /\ main_pc' = "finally"
    /\ UNCHANGED <<beyondSpine, resolver, shutdown_flag, stream, pc, starting_position,
                   retry_count, continuation_sequence, cursor, records,
                   dispatched, failures>>

\* main: sys.exit(0)
Exit ==
    /\ main_pc = "finally"
    /\ main_pc' = "exited"
    /\ UNCHANGED <<beyondSpine, resolver, shutdown_flag, consumer, stream, pc,
                   starting_position, retry_count, continuation_sequence,
                   cursor, records, dispatched, failures>>

\* The steps of one shard task
ShardTask(sh) ==
    \/ LeaveLoop(sh)
    \/ SubscribeToShard(sh)
    \/ SubscribeFails(sh)
    \/ \E count \in 0..MaxEventRecords : ReceiveEvent(sh, count)
    \/ ProcessRecord(sh)
    \/ StreamError(sh)
    \/ SubscriptionEnds(sh)
    \/ Backoff(sh)

\* The steps of consume_and_process_efo and main
MainTask ==
    \/ RegisterStreamConsumer
    \/ DeregisterStreamConsumer
    \/ Exit

NextEfo ==
    \/ \E sh \in Shards : Produce(sh)
    \/ signal_handler
    \/ \E sh \in Shards : ShardTask(sh)
    \/ MainTask

SpecEfo == Init /\ [][NextEfo]_vars

\* The threads run, and a live subscription keeps delivering events
\* (heartbeats at least) until it ends
FairSpecEfo ==
    /\ SpecEfo
    /\ WF_vars(MainTask)
    /\ \A sh \in Shards : WF_vars(ShardTask(sh))

\* ------------------------------------------------------------------------
\* The pipeline: ingress -> landmarks stream -> classifier -> letters
\* stream -> resolver consumer.  A record is the pair of its session and
\* the number of its frame in the order the WebSocket delivered the
\* session's frames; the commit engine stands as the log of the events
\* handed to process_record.
\* ------------------------------------------------------------------------
\* Kinesis: the shard a partition key hashes to
ShardOf(session_id) ==
    IF session_id = "s1" THEN "shardId-0" ELSE "shardId-1"

LandmarkRecord(session_id, frame) ==
    [session_id |-> session_id, frame |-> frame]

\* API Gateway: a frame arrives and starts an invocation of the ingress
\* Lambda; invocations of one session run side by side
ReceiveFrame(s) ==
    /\ received[s] < MaxFrames
    /\ received' = [received EXCEPT ![s] = @ + 1]
    /\ invocations' = invocations \cup {LandmarkRecord(s, received[s] + 1)}
    /\ UNCHANGED <<landmarks_stream, classified, letters_stream, run_pc,
                   run_step, shard_id, shard_iterator, consumer_shutdown_flag,
                   processed, get_records_errors, beyondPipeline>>

\* handle_landmarks: put_record with PartitionKey = session_id
handle_landmarks(invocation) ==
    /\ invocation \in invocations
    /\ landmarks_stream' =
          [landmarks_stream EXCEPT ![ShardOf(invocation.session_id)] =
              Append(@, invocation)]
    /\ invocations' = invocations \ {invocation}
    /\ UNCHANGED <<received, classified, letters_stream, run_pc, run_step,
                   shard_id, shard_iterator, consumer_shutdown_flag,
                   processed, get_records_errors, beyondPipeline>>

\* The shard task: the next record of the shard is classified and its
\* event written (put_prediction_to_kinesis) before the one after it
process_landmark_record(sh) ==
    /\ classified[sh] < Len(landmarks_stream[sh])
    /\ LET record == landmarks_stream[sh][classified[sh] + 1]
       IN  letters_stream' =
             [letters_stream EXCEPT ![ShardOf(record.session_id)] =
                 Append(@, record)]
    /\ classified' = [classified EXCEPT ![sh] = @ + 1]
    /\ UNCHANGED <<received, invocations, landmarks_stream, run_pc, run_step,
                   shard_id, shard_iterator, consumer_shutdown_flag,
                   processed, get_records_errors, beyondPipeline>>

\* kinesis_consumer.signal_handler
consumer_signal_handler ==
    /\ ~consumer_shutdown_flag
    /\ consumer_shutdown_flag' = TRUE
    /\ UNCHANGED <<received, invocations, landmarks_stream, classified,
                   letters_stream, run_pc, run_step, shard_id, shard_iterator,
                   processed, get_records_errors, beyondPipeline>>

\* run(): describe_stream, shard_id = shards[0]['ShardId'], and a LATEST
\* iterator on that shard
FirstShard(shards) == shards[1]

run_start ==
    /\ run_pc = "describe_stream"
    /\ shard_id' = FirstShard(LettersShards)
    /\ shard_iterator' = Len(letters_stream[FirstShard(LettersShards)])
    /\ run_pc' = "loop"
    /\ run_step' = "get_shard_iterator"
    /\ UNCHANGED <<received, invocations, landmarks_stream, classified,
                   letters_stream, consumer_shutdown_flag, processed,
                   get_records_errors, beyondPipeline>>

\* get_records: (Records, NextShardIterator), or ([], None) on ClientError
GetRecordsError == [records |-> <<>>, next_iterator |-> NoSequence]

get_records(iterator, count) ==
    [records |-> SubSeq(letters_stream[shard_id], iterator + 1, iterator + count),
     next_iterator |-> iterator + count]

\* One turn of the while loop of run() on the answer of get_records: the
\* records are processed in order, then the iterator is replaced, or the
\* loop is left where there is none
run_turn(answer) ==
    /\ processed' = processed \o answer.records
    /\ IF answer.next_iterator # NoSequence
         THEN /\ shard_iterator' = answer.next_iterator
              /\ run_pc' = "loop"
         ELSE /\ run_pc' = "stopped"
              /\ UNCHANGED shard_iterator

run_loop ==
    /\ run_pc = "loop"
    /\ ~consumer_shutdown_flag
    /\ \E count \in 0..(Len(letters_stream[shard_id]) - shard_iterator) :
          run_turn(get_records(shard_iterator, count))
    /\ run_step' = "get_records"
    /\ UNCHANGED <<received, invocations, landmarks_stream, classified,
                   letters_stream, shard_id, consumer_shutdown_flag,
                   get_records_errors, beyondPipeline>>

run_loop_error ==
    /\ run_pc = "loop"
    /\ ~consumer_shutdown_flag
    /\ get_records_errors < MaxGetRecordsFails
    /\ get_records_errors' = get_records_errors + 1
    /\ run_turn(GetRecordsError)
    /\ run_step' = "get_records failed"
    /\ UNCHANGED <<received, invocations, landmarks_stream, classified,
                   letters_stream, shard_id, consumer_shutdown_flag,
                   beyondPipeline>>

\* while not shutdown_flag: the loop is left when the flag is up
run_shutdown ==
    /\ run_pc = "loop"
    /\ consumer_shutdown_flag
    /\ run_pc' = "stopped"
    /\ run_step' = "shutdown"
    /\ UNCHANGED <<received, invocations, landmarks_stream, classified,
                   letters_stream, shard_id, shard_iterator,
                   consumer_shutdown_flag, processed, get_records_errors,
                   beyondPipeline>>

NextPipeline ==
    \/ \E s \in PipelineSessions : ReceiveFrame(s)
    \/ \E s \in PipelineSessions, frame \in 1..MaxFrames :
          handle_landmarks(LandmarkRecord(s, frame))
    \/ \E sh \in Shards : process_landmark_record(sh)
    \/ consumer_signal_handler
    \/ run_start
    \/ run_loop
    \/ run_loop_error
    \/ run_shutdown

SpecPipeline == Init /\ [][NextPipeline]_vars

\* ------------------------------------------------------------------------
\* The offline path: kb-submit on an S3 event, Textract, kb-ingest on the
\* completion notification
\* ------------------------------------------------------------------------
\* sha256("bucket|key|etag")[:16]: one value per triple
compute_request_id(bucket, key, etag) ==
    "sha256(" \o bucket \o "|" \o key \o "|" \o etag \o ")"

RequestIdOf(u) == compute_request_id(u.bucket, u.key, u.etag)

\* extract_user_id: the first part of the key
extract_user_id(s3_key) ==
    IF s3_key \in {"u1/doc.pdf", "u1/notes.txt"} THEN "u1" ELSE "unknown"

is_pdf_file(filename) == filename = "u1/doc.pdf"

JobItem(job_id, u, status) ==
    [job_id |-> job_id, request_id |-> RequestIdOf(u),
     user_id |-> extract_user_id(u.key), status |-> status,
     sns_message_id |-> NoMessage]

\* Table.put_item: the item replaces the one of the same key
put_item(table, item) ==
    {i \in table : i.job_id # item.job_id} \cup {item}

\* Table.update_item: SET status, sns_message_id on the item of the key
\* (an item of that key alone is created where there was none)
update_item(table, job_id, status, message_id) ==
    {i \in table : i.job_id # job_id} \cup
    {[i EXCEPT !.status = status, !.sns_message_id = message_id] :
        i \in {j \in table : j.job_id = job_id}}

\* Textract: every start_document_analysis call is a new job
NewJobId == "textract-" \o ToString(Len(textract_jobs) + 1)

\* kb-submit lambda_handler on one S3 record
kb_submit(u, textract_ok) ==
    /\ submits[u] < MaxSubmits
    /\ submits' = [submits EXCEPT ![u] = @ + 1]
    /\ IF is_pdf_file(u.key)
         THEN IF textract_ok
              THEN /\ textract_jobs' = Append(textract_jobs, NewJobId)
                   /\ kb_jobs_table' =
                         put_item(kb_jobs_table, JobItem(NewJobId, u, "RUNNING"))
              ELSE /\ kb_jobs_table' =
                         put_item(kb_jobs_table, JobItem(RequestIdOf(u), u, "FAILED"))
                   /\ UNCHANGED textract_jobs
         ELSE /\ kb_jobs_table' =
                    put_item(kb_jobs_table, JobItem(RequestIdOf(u), u, "SUCCEEDED"))
              /\ UNCHANGED textract_jobs
    /\ UNCHANGED <<notifications, receive_count, ingesting, materializations,
                   beyondKb>>

\* Textract finishes a job and publishes its completion: one message, its
\* MessageId its own
Notification(job_id, status) ==
    [MessageId |-> "sns-" \o job_id, JobId |-> job_id, Status |-> status]

TextractCompletes(job_id, status) ==
    /\ \E i \in DOMAIN textract_jobs : textract_jobs[i] = job_id
    /\ \A n \in notifications : n.JobId # job_id
    /\ notifications' = notifications \cup {Notification(job_id, status)}
    /\ UNCHANGED <<submits, textract_jobs, kb_jobs_table, receive_count,
                   ingesting, materializations, beyondKb>>

\* kb-ingest lambda_handler on one SQS record, up to the point where the
\* job is found fit for ingestion: get_item, the idempotency checks, and
\* the FAILED update of a job that did not succeed
PassesIdempotencyChecks(table, message) ==
    \E item \in table :
        /\ item.job_id = message.JobId
        /\ item.sns_message_id # message.MessageId
        /\ item.status # "INGESTED"

kb_ingest_check(message) ==
    /\ message \in notifications
    /\ receive_count[message.JobId] < MaxReceives
    /\ receive_count' = [receive_count EXCEPT ![message.JobId] = @ + 1]
    /\ IF ~PassesIdempotencyChecks(kb_jobs_table, message)
         THEN UNCHANGED <<kb_jobs_table, ingesting>>
         ELSE IF message.Status # "SUCCEEDED"
              THEN /\ kb_jobs_table' =
                         update_item(kb_jobs_table, message.JobId, "FAILED",
                                     message.MessageId)
                   /\ UNCHANGED ingesting
              ELSE /\ ingesting' = ingesting \cup
                         {[message |-> message,
                           receive |-> receive_count[message.JobId] + 1]}
                   /\ UNCHANGED kb_jobs_table
    /\ UNCHANGED <<submits, textract_jobs, notifications, materializations,
                   beyondKb>>

\* ... and from there on: the three uploads to the raw bucket, the update
\* to INGESTED with the message id, the terms-ready publish
kb_ingest_materialize(invocation) ==
    /\ invocation \in ingesting
    /\ ingesting' = ingesting \ {invocation}
    /\ kb_jobs_table' =
          update_item(kb_jobs_table, invocation.message.JobId, "INGESTED",
                      invocation.message.MessageId)
    /\ materializations' =
          Append(materializations,
                 [job_id |-> invocation.message.JobId,
                  sns_message_id |-> invocation.message.MessageId])
    /\ UNCHANGED <<submits, textract_jobs, notifications, receive_count,
                   beyondKb>>

NextKb ==
    \/ \E u \in Uploads, textract_ok \in BOOLEAN : kb_submit(u, textract_ok)
    \/ \E job_id \in TextractJobIds, status \in {"SUCCEEDED", "FAILED"} :
          TextractCompletes(job_id, status)
    \/ \E job_id \in TextractJobIds, status \in {"SUCCEEDED", "FAILED"} :
          kb_ingest_check(Notification(job_id, status))
    \/ \E job_id \in TextractJobIds, status \in {"SUCCEEDED", "FAILED"},
          receive \in 1..MaxReceives :
          kb_ingest_materialize([message |-> Notification(job_id, status),
                                 receive |-> receive])

SpecKb == Init /\ [][NextKb]_vars

\* ------------------------------------------------------------------------
\* kb-aliases: validation and scoring of an alias, and the write to the
\* lexicon
\* ------------------------------------------------------------------------
\* str.upper()
UpperChar(c) == IF c = "w" THEN "W" ELSE IF c = "a" THEN "A" ELSE c

upper(q) == [i \in DOMAIN q |-> UpperChar(q[i])]

\* str.strip(): leading and trailing whitespace is dropped
RECURSIVE lstrip(_)
lstrip(q) ==
    IF q # <<>> /\ Head(q) \in Whitespace THEN lstrip(Tail(q)) ELSE q

RECURSIVE rstrip(_)
rstrip(q) ==
    IF q # <<>> /\ q[Len(q)] \in Whitespace
    THEN rstrip(SubSeq(q, 1, Len(q) - 1))
    ELSE q

strip(q) == rstrip(lstrip(q))

\* .replace(' ', '').replace('-', '')
IsNotSpaceOrHyphen(c) == c \notin {" ", "-"}

Clean(q) == SelectSeq(q, IsNotSpaceOrHyphen)

MatchesAliasPattern_LengthOnly(q) ==
    Len(q) >= MinAliasLength /\ Len(q) <= MaxAliasLength

\* re.match(r'^[A-Z0-9\-\s]{2,40}$', alias)
MatchesAliasPattern(q) ==
    /\ Len(q) >= MinAliasLength
    /\ Len(q) <= MaxAliasLength
    /\ \A i \in DOMAIN q :
          q[i] \in {"A", "E", "S", "T", "W", "X", "Y", "Z", "6", "-", " ", "\t"}

\* char_to_idx: digits 0..9, letters 10..35, "_" 36, otherwise -1
char_to_idx(c) ==
    CASE c = "6" -> 6
      [] c \in {"A", "a"} -> 10
      [] c = "E" -> 14
      [] c = "S" -> 28
      [] c = "T" -> 29
      [] c \in {"W", "w"} -> 32
      [] c = "X" -> 33
      [] c = "Y" -> 34
      [] c = "Z" -> 35
      [] c = "_" -> 36
      [] OTHER -> -1

\* CONFUSION_MATRIX: the rows of the characters kept here at the columns
\* of those characters, and the sums of those rows over all 37 columns
MatrixRow(idx1) ==
    CASE idx1 = 6  -> (10 :> 7 @@ 32 :> 44 @@ 6 :> 680 @@ 33 :> 3 @@ 29 :> 2
                       @@ 14 :> 1 @@ 35 :> 1 @@ 34 :> 1 @@ 36 :> 2)
      [] idx1 = 10 -> (10 :> 954 @@ 33 :> 2 @@ 29 :> 5)
      [] idx1 = 14 -> (10 :> 2 @@ 29 :> 5 @@ 14 :> 63)
      [] idx1 = 28 -> (10 :> 4 @@ 28 :> 19 @@ 29 :> 6 @@ 14 :> 3 @@ 36 :> 1)
      [] idx1 = 29 -> (10 :> 10 @@ 33 :> 1 @@ 29 :> 394 @@ 14 :> 1 @@ 34 :> 1)
      [] idx1 = 32 -> (32 :> 1738 @@ 6 :> 8)
      [] idx1 = 33 -> (33 :> 1765 @@ 36 :> 1)
      [] idx1 = 34 -> (10 :> 15 @@ 33 :> 1 @@ 29 :> 4 @@ 14 :> 3 @@ 34 :> 97
                       @@ 36 :> 5)
      [] idx1 = 35 -> (35 :> 1499 @@ 34 :> 1 @@ 36 :> 16)
      [] idx1 = 36 -> (35 :> 1 @@ 36 :> 881)
      [] OTHER -> <<>>

CONFUSION_MATRIX(idx1, idx2) ==
    IF idx2 \in DOMAIN MatrixRow(idx1) THEN MatrixRow(idx1)[idx2] ELSE 0

RowTotal(idx1) ==
    CASE idx1 = 6  -> 836
      [] idx1 = 10 -> 1020
      [] idx1 = 14 -> 76
      [] idx1 = 28 -> 88
      [] idx1 = 29 -> 438
      [] idx1 = 32 -> 1755
      [] idx1 = 33 -> 1770
      [] idx1 = 34 -> 151
      [] idx1 = 35 -> 1524
      [] idx1 = 36 -> 884
      [] OTHER -> 0

\* KNOWN_CONFUSION_PAIRS, as far as they lie in the characters kept here
KNOWN_CONFUSION_PAIRS ==
    {<<"W", "6">>, <<"6", "W">>, <<"A", "T">>, <<"T", "A">>, <<"A", "E">>,
     <<"E", "A">>, <<"E", "S">>, <<"S", "E">>, <<"E", "T">>, <<"T", "E">>,
     <<"S", "T">>, <<"T", "S">>}

is_known_confusion(char1, char2) ==
    <<UpperChar(char1), UpperChar(char2)>> \in KNOWN_CONFUSION_PAIRS

get_confusion_prob(char1, char2) ==
    LET idx1 == char_to_idx(char1)
        idx2 == char_to_idx(char2)
    IN  IF idx1 = -1 \/ idx2 = -1 THEN 0
        ELSE IF RowTotal(idx1) > 0
             THEN (CONFUSION_MATRIX(idx1, idx2) * 1000000) \div RowTotal(idx1)
             ELSE 0

Min3(a, b, c) ==
    IF a <= b /\ a <= c THEN a ELSE IF b <= c THEN b ELSE c

RECURSIVE levenshtein_distance(_, _)
levenshtein_distance(s1, s2) ==
    IF Len(s1) = 0 THEN Len(s2)
    ELSE IF Len(s2) = 0 THEN Len(s1)
    ELSE Min3(levenshtein_distance(Tail(s1), s2) + 1,
              levenshtein_distance(s1, Tail(s2)) + 1,
              levenshtein_distance(Tail(s1), Tail(s2))
                  + (IF Head(s1) = Head(s2) THEN 0 ELSE 1))

MinOf(a, b) == IF a <= b THEN a ELSE b

MaxOf(a, b) == IF a >= b THEN a ELSE b

\* what position i adds to the score
PositionScore(c1, c2) ==
    IF c1 = c2 THEN 1000000
    ELSE LET conf_prob == get_confusion_prob(c1, c2)
         IN  IF conf_prob < LowConfusionProb /\ is_known_confusion(c1, c2)
             THEN MaxOf(conf_prob, KnownConfusionBaseline)
             ELSE conf_prob

RECURSIVE AlignedScore(_, _, _)
AlignedScore(surface_clean, alias_clean, min_len) ==
    IF min_len = 0 THEN 0
    ELSE AlignedScore(surface_clean, alias_clean, min_len - 1)
         + PositionScore(surface_clean[min_len], alias_clean[min_len])

confusion_weighted_edit_distance(surface, alias) ==
    LET surface_clean == Clean(surface)
        alias_clean   == Clean(alias)
    IN  IF levenshtein_distance(surface_clean, alias_clean) > MaxEditDistance
        THEN 0
        ELSE IF Len(surface_clean) > 0
             THEN AlignedScore(surface_clean, alias_clean,
                               MinOf(Len(surface_clean), Len(alias_clean)))
                  \div Len(surface_clean)
             ELSE 0

Rejected(score) == [is_valid |-> FALSE, score |-> score]

validate_alias(raw_surface, raw_alias) ==
    LET alias   == strip(upper(raw_alias))
        surface == strip(upper(raw_surface))
    IN  IF Len(alias) < MinAliasLength \/ Len(alias) > MaxAliasLength
        THEN Rejected(0)
        ELSE IF ~MatchesAliasPattern(alias) THEN Rejected(0)
        ELSE IF levenshtein_distance(Clean(surface), Clean(alias))
                    > MaxEditDistance
        THEN Rejected(0)
        ELSE LET score == confusion_weighted_edit_distance(surface, alias)
             IN  IF score < MinAliasScore THEN Rejected(score)
                 ELSE [is_valid |-> TRUE, score |-> score]

\* round(score, 3), in thousandths
Round3(score) == (score + 500) \div 1000

\* generate_aliases_with_llm on one item of the answer: the aliases that
\* pass validate_alias, each as alias.upper() with its rounded score
RECURSIVE ValidatedAliases(_, _)
ValidatedAliases(surface, raw_aliases) ==
    IF raw_aliases = <<>> THEN <<>>
    ELSE LET checked == validate_alias(surface, Head(raw_aliases))
             rest    == ValidatedAliases(surface, Tail(raw_aliases))
         IN  IF checked.is_valid
             THEN <<[alias |-> upper(Head(raw_aliases)),
                     confidence |-> Round3(checked.score)]>> \o rest
             ELSE rest

\* list.sort(key=confidence, reverse=True): stable, equal keys keep their
\* order
RECURSIVE InsertByConfidence(_, _)
InsertByConfidence(sorted, entry) ==
    IF sorted = <<>> THEN <<entry>>
    ELSE IF Head(sorted).confidence >= entry.confidence
         THEN <<Head(sorted)>> \o InsertByConfidence(Tail(sorted), entry)
         ELSE <<entry>> \o sorted

RECURSIVE SortByConfidence(_)
SortByConfidence(entries) ==
    IF entries = <<>> THEN <<>>
    ELSE InsertByConfidence(
             SortByConfidence(SubSeq(entries, 1, Len(entries) - 1)),
             entries[Len(entries)])

generate_aliases_with_llm(surface, raw_aliases) ==
    SortByConfidence(ValidatedAliases(upper(surface), raw_aliases))

\* bulk_write_to_mongodb: the document upserted for a surface
Document(surface, alias_list, user_id, job_id) ==
    LET capped_aliases ==
            SubSeq(alias_list, 1, MinOf(Len(alias_list), MaxAliasesPerSurface))
    IN  [surface |-> surface,
         aliases |-> [i \in DOMAIN capped_aliases |-> capped_aliases[i].alias],
         confidence_scores |-> capped_aliases,
         user_id |-> user_id,
         job_id |-> job_id]

\* The sequences of 1..n elements of S
SeqsUpTo(S, n) == UNION {[1..k -> S] : k \in 1..n}

RawAliases == SeqsUpTo(AliasChars, MaxRawAliasLength)

\* kb-aliases lambda_handler on a terms-ready message: the LLM answers
\* with aliases for the term, the validated ones go to the bundle in S3
\* and, where there are any, to the lexicon
kb_aliases(message, raw_aliases) ==
    LET term    == message.terms[1]
        surface == upper(term)
        validated_aliases == generate_aliases_with_llm(term, raw_aliases)
    IN  /\ aliases_bucket' = [aliases_bucket EXCEPT ![message] = validated_aliases]
        /\ lexicon' =
              IF validated_aliases = <<>> THEN lexicon
              ELSE [lexicon EXCEPT ![surface] =
                       Document(surface, validated_aliases, message.user_id,
                                message.job_id)]
        /\ UNCHANGED beyondAliasing

NextAliases ==
    \E message \in TermsReady, raw_aliases \in SeqsUpTo(RawAliases, MaxRawAliases) :
        kb_aliases(message, raw_aliases)

SpecAliases == Init /\ [][NextAliases]_vars

\* ------------------------------------------------------------------------
\* validate_alias on its own: the cases of test_alias_validation
\* ------------------------------------------------------------------------
ValidatorSurfaces ==
    {<<"A", "W", "S">>, <<"A", "W">>, <<"W", "W", "W">>,
     <<"T", "E", "S", "T">>}

ValidatorChars == {"A", "W", "S", "6", "T", " ", "-", "\t", "_"}

TooLongAlias == <<"A", "W">> \o [i \in 1..41 |-> "S"]

ValidatorAliases ==
    SeqsUpTo(ValidatorChars, MaxValidatedLength) \cup
    {<<"X", "Y", "Z">>, <<"Z", "Z", "Z", "Z">>, <<"T", "A", "S", "T">>,
     <<"A", "-", "W", "-", "S">>, TooLongAlias}

validate(surface, alias) ==
    LET answer == validate_alias(surface, alias)
    IN  /\ validation' = [surface |-> surface, alias |-> alias,
                          is_valid |-> answer.is_valid,
                          score |-> answer.score]
        /\ UNCHANGED beyondValidating

\* one call of validate_alias in a run
NextValidator ==
    /\ validation.alias = <<>>
    /\ \E surface \in ValidatorSurfaces, alias \in ValidatorAliases :
          validate(surface, alias)

SpecValidator == Init /\ [][NextValidator]_vars

\* ------------------------------------------------------------------------
\* word_resolver.py: the lexicon search and the hybrid ranking
\* ------------------------------------------------------------------------
LexiconEntry(surface, user_id, confidence_scores) ==
    [surface |-> surface, user_id |-> user_id,
     aliases |-> [i \in DOMAIN confidence_scores |-> confidence_scores[i].alias],
     confidence_scores |-> confidence_scores]

AliasScore(alias, confidence) == [alias |-> alias, confidence |-> confidence]

\* The lexicon collection, in the order of insertion: six entries of user
\* u1, one of user u2, and one more of u1 that only a longer query reaches
LexiconDocuments ==
    << LexiconEntry(<<"A", "W", "S">>, "u1",
           << AliasScore(<<"A", "W", "6">>, 700),
              AliasScore(<<"A", " ", "W", " ", "S">>, 800),
              AliasScore(<<"A", "W", "S">>, 1000) >>),
       LexiconEntry(<<"A", "W", "L">>, "u1",
           << AliasScore(<<"A", "W", "L">>, 1000) >>),
       LexiconEntry(<<"A", "W", "E">>, "u1",
           << AliasScore(<<"A", "W", "E">>, 1000) >>),
       LexiconEntry(<<"A", "W", "N">>, "u1",
           << AliasScore(<<"A", "W", "N">>, 1000),
              AliasScore(<<"A", "W", "S">>, 500) >>),
       LexiconEntry(<<"A", "W", "A">>, "u1", <<>>),
       LexiconEntry(<<"A", "W", "W">>, "u1",
           << AliasScore(<<"A", "W", "6">>, 700) >>),
       LexiconEntry(<<"A", "W", "K">>, "u2",
           << AliasScore(<<"A", "W", "K">>, 1000),
              AliasScore(<<"A", "W", "S">>, 500) >>),
       LexiconEntry(<<"S", "E", "A", "W", "S", "E">>, "u1",
           << AliasScore(<<"S", "E", "A", "W", "S", "E", "E">>, 1000) >>) >>

Reverse(q) == [i \in DOMAIN q |-> q[Len(q) + 1 - i]]

\* The orders in which the search engine lists documents of equal rank
StoreOrders == {LexiconDocuments, Reverse(LexiconDocuments)}

\* The words a session spells, and the sessions (a session's id is the
\* user id of its buffer)
RawWords ==
    {<<"A", "W">>, <<"A", "W", "S">>, <<"A", "W", "6">>,
     <<"A", "W", "S", "E">>}
SearchChars == {"A", "W", "S", "6", "E"}

\* some prefix of text lies within max_edits of the query
HasPrefixNear(text, query, max_edits) ==
    \E n \in 0..Len(text) :
        levenshtein_distance(SubSeq(text, 1, n), query) <= max_edits

\* The $search stage: autocomplete (fuzzy, maxEdits 1) on aliases and on
\* surface for a short query, text (fuzzy, fuzzy_max_edits) on both for a
\* longer one; the index and the query are compared in one case.  No
\* stage of the pipeline looks at user_id.
SearchMatches(query, doc) ==
    LET texts == {doc.surface} \cup {doc.aliases[i] : i \in DOMAIN doc.aliases}
    IN  IF Len(query) <= AutocompleteMaxLength
        THEN \E text \in texts :
                 HasPrefixNear(upper(text), upper(query), AutocompleteMaxEdits)
        ELSE \E text \in texts :
                 levenshtein_distance(upper(text), upper(query)) <= FuzzyMaxEdits

\* {'$meta': 'searchScore'}: a document that holds the query itself ranks
\* above one that is merely near it
SearchScore(query, doc) ==
    IF \/ upper(doc.surface) = upper(query)
       \/ \E i \in DOMAIN doc.aliases : upper(doc.aliases[i]) = upper(query)
    THEN 2000 ELSE 1000

RECURSIVE SelectMatches(_, _)
SelectMatches(query, docs) ==
    IF docs = <<>> THEN <<>>
    ELSE IF SearchMatches(query, Head(docs))
         THEN <<[doc |-> Head(docs), score |-> SearchScore(query, Head(docs))]>>
              \o SelectMatches(query, Tail(docs))
         ELSE SelectMatches(query, Tail(docs))

\* collection.aggregate(pipeline): $search, $project, $limit
aggregate(query, store_order) ==
    LET matches == SelectMatches(query, store_order)
    IN  SubSeq(matches, 1, MinOf(Len(matches), AtlasLimit))

StartsWith(text, prefix) ==
    /\ Len(prefix) <= Len(text)
    /\ SubSeq(text, 1, Len(prefix)) = prefix

Contains(text, part) ==
    \E k \in 0..(Len(text) - Len(part)) :
        SubSeq(text, k + 1, k + Len(part)) = part

AbsDiff(a, b) == IF a >= b THEN a - b ELSE b - a

NoAlias == <<>>
NoDistance == 1000       \* float('inf')

\* _find_best_matching_alias: the loop over aliases[from..], with the best
\* alias and distance so far
RECURSIVE BestMatchFrom(_, _, _, _, _)
BestMatchFrom(query_upper, aliases, from, best_alias, best_distance) ==
    IF from > Len(aliases) THEN best_alias
    ELSE LET alias       == aliases[from]
             alias_upper == Clean(upper(alias))
         IN  IF alias_upper = query_upper THEN alias
             ELSE IF StartsWith(alias_upper, query_upper)
                        \/ Contains(alias_upper, query_upper)
             THEN LET distance == AbsDiff(Len(alias_upper), Len(query_upper))
                  IN  IF distance < best_distance
                      THEN BestMatchFrom(query_upper, aliases, from + 1,
                                         alias, distance)
                      ELSE BestMatchFrom(query_upper, aliases, from + 1,
                                         best_alias, best_distance)
             ELSE LET distance == levenshtein_distance(alias_upper, query_upper)
                  IN  IF distance <= BestAliasMaxDistance
                            /\ distance < best_distance
                      THEN BestMatchFrom(query_upper, aliases, from + 1,
                                         alias, distance)
                      ELSE BestMatchFrom(query_upper, aliases, from + 1,
                                         best_alias, best_distance)

find_best_matching_alias(query, aliases) ==
    IF aliases = <<>> THEN NoAlias
    ELSE BestMatchFrom(Clean(upper(query)), aliases, 1, NoAlias, NoDistance)

\* _atlas_fuzzy_search: the documents of the answer, each with
\* matched_alias (the best alias, or the surface where there is none)
atlas_fuzzy_search(query, store_order) ==
    LET results == aggregate(query, store_order)
    IN  [i \in DOMAIN results |->
            LET matched_alias ==
                    find_best_matching_alias(query, results[i].doc.aliases)
            IN  [surface |-> results[i].doc.surface,
                 aliases |-> results[i].doc.aliases,
                 confidence_scores |-> results[i].doc.confidence_scores,
                 user_id |-> results[i].doc.user_id,
                 score |-> results[i].score,
                 matched_alias |-> IF matched_alias # NoAlias THEN matched_alias
                                   ELSE results[i].doc.surface]]

\* confidence_scores.get(matched_alias, 0.0)
get_alias_confidence(result) ==
    IF \E i \in DOMAIN result.confidence_scores :
           result.confidence_scores[i].alias = result.matched_alias
    THEN LET i == CHOOSE j \in DOMAIN result.confidence_scores :
                      result.confidence_scores[j].alias = result.matched_alias
         IN  result.confidence_scores[i].confidence
    ELSE 0

SearchResult(result) ==
    LET alias_confidence == get_alias_confidence(result)
    IN  [surface |-> result.surface,
         atlas_score |-> result.score,
         alias_confidence |-> alias_confidence,
         hybrid_score |-> AtlasWeight * result.score
                          + AliasWeight * alias_confidence,
         matched_via |-> result.matched_alias]

\* list.sort(key=hybrid_score, reverse=True): stable
RECURSIVE InsertByHybridScore(_, _)
InsertByHybridScore(sorted, entry) ==
    IF sorted = <<>> THEN <<entry>>
    ELSE IF Head(sorted).hybrid_score >= entry.hybrid_score
         THEN <<Head(sorted)>> \o InsertByHybridScore(Tail(sorted), entry)
         ELSE <<entry>> \o sorted

RECURSIVE SortByHybridScore(_)
SortByHybridScore(entries) ==
    IF entries = <<>> THEN <<>>
    ELSE InsertByHybridScore(
             SortByHybridScore(SubSeq(entries, 1, Len(entries) - 1)),
             entries[Len(entries)])

\* resolve_word; the search fails (no collection, or an exception) where
\* search_ok is false
\* resolve_word without its degradation: the results of a search that
\* failed are reported as if it had answered
resolve_word_NoDegradation(buffer, session_id, search_method, store_order, search_ok) ==
    LET raw_word == buffer.letters
        results  == atlas_fuzzy_search(raw_word, store_order)
    IN  [session_id |-> session_id, user_id |-> buffer.user_id,
         raw_word |-> raw_word, search_method |-> search_method,
         all_results |->
             SortByHybridScore([i \in DOMAIN results |->
                                   SearchResult(results[i])])]

resolve_word(buffer, session_id, search_method, store_order, search_ok) ==
    LET raw_word == buffer.letters
        results  == atlas_fuzzy_search(raw_word, store_order)
        all_search_results ==
            SortByHybridScore([i \in DOMAIN results |-> SearchResult(results[i])])
    IN  [session_id |-> session_id, user_id |-> buffer.user_id,
         raw_word |-> raw_word, search_method |-> search_method,
         all_results |-> IF raw_word # <<>> /\ search_ok
                         THEN all_search_results ELSE <<>>]

\* Whether some raw word of the runs starts with these letters
IsPrefixOfRawWord(letters) ==
    \E raw_word \in RawWords :
        /\ Len(letters) <= Len(raw_word)
        /\ SubSeq(raw_word, 1, Len(letters)) = letters

\* process_record of a prediction whose letter process_letter commits: the
\* observation is in the window and the letter is appended to the word
commit_letter(session_id, char) ==
    LET state  == session_state[session_id]
        buffer == GetWordBuffer(state.word, session_id)
        t      == Len(buffer.letters) + 1
    IN  /\ IsPrefixOfRawWord(Append(buffer.letters, char))
        /\ session_state' =
              [session_state EXCEPT ![session_id] =
                  [window |-> PushLetter(state.window,
                                         LetterEntry(char, 90, t)),
                   word   |-> AppendToWord(state.word, session_id, char, t)]]
        /\ UNCHANGED <<resolved_words, lexicon_store_up>>
        /\ UNCHANGED beyondSearching

\* MongoDB stops answering: resolve_word finds no collection, or the search
\* raises
lexicon_store_fails ==
    /\ lexicon_store_up
    /\ lexicon_store_up' = FALSE
    /\ UNCHANGED <<resolved_words, session_state>>
    /\ UNCHANGED beyondSearching

\* MongoDB answers again
lexicon_store_recovers ==
    /\ ~lexicon_store_up
    /\ lexicon_store_up' = TRUE
    /\ UNCHANGED <<resolved_words, session_state>>
    /\ UNCHANGED beyondSearching

\* _finalize_word of a session whose buffer holds letters: the word is
\* resolved, the ResolvedWord is sent to the outbound Lambda, and the
\* session's word buffer and window are deleted
finalize_word(session_id, search_method, store_order) ==
    LET buffer == GetWordBuffer(session_state[session_id].word, session_id)
    IN  /\ buffer.letters # <<>>
        /\ Len(resolved_words) < MaxResolved
        /\ resolved_words' =
              Append(resolved_words,
                     resolve_word(buffer, session_id, search_method,
                                  store_order, lexicon_store_up))
        /\ session_state' =
              [session_state EXCEPT ![session_id] =
                  [window |-> <<>>, word |-> NoBuffer]]
        /\ UNCHANGED lexicon_store_up
        /\ UNCHANGED beyondSearching

NextSearch ==
    \/ \E session_id \in ResolverSessions, char \in SearchChars :
          commit_letter(session_id, char)
    \/ lexicon_store_fails
    \/ lexicon_store_recovers
    \/ \E session_id \in ResolverSessions,
          search_method \in {"fuzzy", "skip_event"},
          store_order \in StoreOrders :
          finalize_word(session_id, search_method, store_order)

SpecSearch == Init /\ [][NextSearch]_vars

\* ------------------------------------------------------------------------
\* ingress_handler.py: a message on the sendlandmarks route.  A body is
\* described by what the handler looks at: whether it parses as JSON, how
\* many values its data holds, and whether all of them are finite (json.loads
\* reads NaN and Infinity as floats).
\* ------------------------------------------------------------------------
NotJson == [json |-> FALSE, count |-> 0, finite |-> TRUE]

Bodies ==
    {NotJson} \cup
    {body \in [json : {TRUE},
              count : {0, LandmarkCount - 1, LandmarkCount, LandmarkCount + 1},
              finite : BOOLEAN] : body.count = 0 => body.finite}

\* handle_landmarks as a function of the body and of whether put_record
\* succeeds: the status returned and whether a record was put
HandleLandmarksAnswer(body, put_ok) ==
    IF ~body.json THEN [statusCode |-> 400, put |-> FALSE]
    ELSE IF body.count = 0 THEN [statusCode |-> 400, put |-> FALSE]
    ELSE IF ~put_ok THEN [statusCode |-> 500, put |-> FALSE]
    ELSE [statusCode |-> 200, put |-> TRUE]

\* lambda_handler on the route sendlandmarks
sendlandmarks(body, put_ok) ==
    LET answer  == HandleLandmarksAnswer(body, put_ok)
        message == Len(acknowledgements) + 1
    IN  /\ Len(acknowledgements) < MaxMessages
        /\ acknowledgements' =
              Append(acknowledgements,
                     [body |-> body, statusCode |-> answer.statusCode])
        /\ ingress_records' =
              IF answer.put
              THEN Append(ingress_records,
                          [message |-> message, landmarks |-> body])
              ELSE ingress_records
        /\ UNCHANGED beyondIngress

NextIngress ==
    \E body \in Bodies, put_ok \in BOOLEAN : sendlandmarks(body, put_ok)

SpecIngress == Init /\ [][NextIngress]_vars

\* ------------------------------------------------------------------------
\* letter-model-service: asl_service.py and the writer of main.py, one
\* landmark record at a time
\* ------------------------------------------------------------------------
NoFrame == [left |-> <<>>, right |-> <<>>]

Frames ==
    [left : [1..BlockValues -> Magnitudes],
     right : [1..BlockValues -> Magnitudes]]

\* The fallback labels of _initialize_model; none carries the "ASL " prefix
\* that predict_from_landmarks strips
keypoint_classifier_labels ==
    <<"0", "1", "2", "3", "4", "5", "6", "7", "8", "9",
      "A", "B", "C", "D", "E", "F", "G", "H", "I", "J",
      "K", "L", "M", "N", "O", "P", "Q", "R", "S", "T",
      "U", "V", "W", "X", "Y", "Z", "_">>

Abs(val) == IF val < 0 THEN -val ELSE val

\* A hand test that forgets the sign of the values
extract_hand_from_holistic_Signed(holistic_landmarks) ==
    LET left_hand_active ==
            \E i \in DOMAIN holistic_landmarks.left :
                holistic_landmarks.left[i] > HandActiveThreshold
        right_hand_active ==
            \E i \in DOMAIN holistic_landmarks.right :
                holistic_landmarks.right[i] > HandActiveThreshold
    IN  IF left_hand_active /\ right_hand_active
        THEN [handedness |-> "none", multi_hand |-> TRUE, skip_inference |-> TRUE]
        ELSE IF right_hand_active
        THEN [handedness |-> "right", multi_hand |-> FALSE, skip_inference |-> FALSE]
        ELSE IF left_hand_active
        THEN [handedness |-> "left", multi_hand |-> FALSE, skip_inference |-> FALSE]
        ELSE [handedness |-> "none", multi_hand |-> FALSE, skip_inference |-> TRUE]

\* extract_hand_from_holistic: handedness "none" stands for None; the
\* landmarks of the selected hand are its block
extract_hand_from_holistic(holistic_landmarks) ==
    LET left_hand_active ==
            \E i \in DOMAIN holistic_landmarks.left :
                Abs(holistic_landmarks.left[i]) > HandActiveThreshold
        right_hand_active ==
            \E i \in DOMAIN holistic_landmarks.right :
                Abs(holistic_landmarks.right[i]) > HandActiveThreshold
    IN  IF left_hand_active /\ right_hand_active
        THEN [handedness |-> "none", multi_hand |-> TRUE, skip_inference |-> TRUE]
        ELSE IF right_hand_active
        THEN [handedness |-> "right", multi_hand |-> FALSE, skip_inference |-> FALSE]
        ELSE IF left_hand_active
        THEN [handedness |-> "left", multi_hand |-> FALSE, skip_inference |-> FALSE]
        ELSE [handedness |-> "none", multi_hand |-> FALSE, skip_inference |-> TRUE]

\* A prediction that keeps the classifier's confidence for a class outside
\* the labels
predict_from_landmarks_KeepsConfidence(landmarks_list, hand_sign_id, confidence) ==
    LET hand_extraction == extract_hand_from_holistic(landmarks_list)
        in_range == 0 <= hand_sign_id
                    /\ hand_sign_id < Len(keypoint_classifier_labels)
    IN  IF hand_extraction.skip_inference
        THEN [prediction |-> "", confidence |-> 0, skipped |-> TRUE,
              skip_reason |-> IF hand_extraction.multi_hand
                              THEN "multi_hand" ELSE "no_hands",
              multi_hand |-> hand_extraction.multi_hand,
              handedness |-> hand_extraction.handedness,
              classifier_called |-> FALSE]
        ELSE [prediction |-> IF in_range
                             THEN keypoint_classifier_labels[hand_sign_id + 1]
                             ELSE "Unknown",
              confidence |-> confidence,
              skipped |-> FALSE, skip_reason |-> "",
              multi_hand |-> FALSE,
              handedness |-> hand_extraction.handedness,
              classifier_called |-> TRUE]

\* predict_from_landmarks, given what the classifier answers when it is
\* called: the result, and whether the classifier was called
predict_from_landmarks(landmarks_list, hand_sign_id, confidence) ==
    LET hand_extraction == extract_hand_from_holistic(landmarks_list)
        in_range == 0 <= hand_sign_id
                    /\ hand_sign_id < Len(keypoint_classifier_labels)
    IN  IF hand_extraction.skip_inference
        THEN [prediction |-> "", confidence |-> 0, skipped |-> TRUE,
              skip_reason |-> IF hand_extraction.multi_hand
                              THEN "multi_hand" ELSE "no_hands",
              multi_hand |-> hand_extraction.multi_hand,
              handedness |-> hand_extraction.handedness,
              classifier_called |-> FALSE]
        ELSE [prediction |-> IF in_range
                             THEN keypoint_classifier_labels[hand_sign_id + 1]
                             ELSE "Unknown",
              confidence |-> IF in_range THEN confidence ELSE 0,
              skipped |-> FALSE, skip_reason |-> "",
              multi_hand |-> FALSE,
              handedness |-> hand_extraction.handedness,
              classifier_called |-> TRUE]

\* put_prediction_to_kinesis: the record written
LettersRecord(session_id, prediction_data) ==
    IF prediction_data.skipped
    THEN [session_id |-> session_id, event_type |-> "skip",
          skip_reason |-> prediction_data.skip_reason,
          multi_hand |-> prediction_data.multi_hand,
          handedness |-> prediction_data.handedness,
          prediction |-> "", confidence |-> 0]
    ELSE [session_id |-> session_id, event_type |-> "prediction",
          skip_reason |-> "",
          multi_hand |-> prediction_data.multi_hand,
          handedness |-> prediction_data.handedness,
          prediction |-> prediction_data.prediction,
          confidence |-> prediction_data.confidence]

\* process_landmark_record on a record that holds landmarks: the frame is
\* classified and its event written; an exception of the classifier or of
\* put_record is logged and the record is left behind
process_landmark_frame(frame, hand_sign_id, confidence, classifier_ok, put_ok) ==
    LET result == predict_from_landmarks(frame, hand_sign_id, confidence)
        raised == result.classifier_called /\ ~classifier_ok
    IN  /\ landmark_frame' = frame
        /\ classifier_calls' = IF result.classifier_called THEN 1 ELSE 0
        /\ frame_failure' = IF raised THEN "classifier"
                            ELSE IF ~put_ok THEN "put_record" ELSE "none"
        /\ written' = IF raised \/ ~put_ok THEN <<>>
                      ELSE <<LettersRecord("s1", result)>>
        /\ UNCHANGED beyondClassifying

NextClassifier ==
    \E frame \in Frames, hand_sign_id \in ClassIds,
       confidence \in ClassifierConfs, classifier_ok, put_ok \in BOOLEAN :
        process_landmark_frame(frame, hand_sign_id, confidence,
                               classifier_ok, put_ok)

SpecClassifier == Init /\ [][NextClassifier]_vars

\* ------------------------------------------------------------------------
\* letter-model-service: one thread per shard (asyncio.to_thread in
\* process_shard_with_efo), every thread calling the one KeyPointClassifier
\* of the one LetterASLService.  __call__ holds no lock; a thread can be
\* descheduled between any two of its interpreter calls.
\* ------------------------------------------------------------------------
\* The pre-processed landmark lists of the records: the wrist at the origin,
\* one further point, in thousandths
LandmarkLists == {<<0, 0, x, y>> : x, y \in {0, 1000}}

\* The network of the .tflite file, which is not part of the sources: a
\* fixed function of the input tensor, here one that tells the inputs apart.
\* The result is what __call__ takes from the output tensor: the argmax and
\* its probability.
InterpreterModel(landmark_input) ==
    [hand_sign_id |-> 10 + (landmark_input[1] \div 1000)
                         + 2 * (landmark_input[2] \div 1000),
     confidence |-> 90 - 10 * (landmark_input[1] \div 1000)]

\* What KeyPointClassifier(landmark_list) answers when nothing else touches
\* the interpreter: features 3 onward go in
KeyPointClassifier(landmark_list) ==
    InterpreterModel(SubSeq(landmark_list, 3, Len(landmark_list)))

CallsBegun ==
    Len(inferences)
    + Cardinality({shard \in Shards : classifier_threads[shard].pc # "idle"})

\* __call__, lines 33-38: the thread of a shard writes the input tensor
classifier_set_tensor(shard, landmark_list) ==
    /\ classifier_threads[shard].pc = "idle"
    /\ CallsBegun < MaxInferences
    /\ interpreter' = [interpreter EXCEPT
                          !.input = SubSeq(landmark_list, 3, Len(landmark_list))]
    /\ classifier_threads' = [classifier_threads EXCEPT
                                 ![shard] = [pc |-> "set",
                                             landmark_list |-> landmark_list]]
    /\ UNCHANGED <<inferences, beyondInferring>>

\* __call__, line 39: the network runs on whatever the input tensor holds
classifier_invoke(shard) ==
    /\ classifier_threads[shard].pc = "set"
    /\ interpreter' = [interpreter EXCEPT
                          !.output = InterpreterModel(interpreter.input)]
    /\ classifier_threads' = [classifier_threads EXCEPT ![shard].pc = "invoked"]
    /\ UNCHANGED <<inferences, beyondInferring>>

\* __call__, lines 41-52: the thread reads the output tensor and returns
classifier_get_tensor(shard) ==
    /\ classifier_threads[shard].pc = "invoked"
    /\ inferences' = Append(inferences,
                            [shard |-> shard,
                             landmark_list |-> classifier_threads[shard].landmark_list,
                             hand_sign_id |-> interpreter.output.hand_sign_id,
                             confidence |-> interpreter.output.confidence])
    /\ classifier_threads' = [classifier_threads EXCEPT
                                 ![shard] = [pc |-> "idle", landmark_list |-> <<>>]]
    /\ UNCHANGED <<interpreter, beyondInferring>>

NextInference ==
    \/ \E shard \in Shards, landmark_list \in LandmarkLists :
          classifier_set_tensor(shard, landmark_list)
    \/ \E shard \in Shards : classifier_invoke(shard)
    \/ \E shard \in Shards : classifier_get_tensor(shard)

SpecInference == Init /\ [][NextInference]_vars

\* ------------------------------------------------------------------------
\* letter-model-service/main.py: the retry delay of the subscription loop,
\* in tenths of a second
\* ------------------------------------------------------------------------
\* min(base_delay * (2 ** retry_count), max_retry_delay)
exponential_delay(count) ==
    IF BaseDelay * (2 ^ count) < MaxRetryDelay
    THEN BaseDelay * (2 ^ count) ELSE MaxRetryDelay

\* random.uniform(0, exponential_delay * 0.1): the values it can take
Jitters(count) == 0..((exponential_delay(count) * JitterPercent) \div 100)

\* except ClientError / except Exception: the failure is counted and the
\* task sleeps for the delay
subscription_fails(jitter) ==
    /\ consecutive_failures < MaxRetryCount
    /\ jitter \in Jitters(consecutive_failures + 1)
    /\ consecutive_failures' = consecutive_failures + 1
    /\ retry_delay' = exponential_delay(consecutive_failures + 1) + jitter
    /\ UNCHANGED beyondBackoff

\* subscribe_to_shard answers: retry_count = 0
subscription_succeeds ==
    /\ consecutive_failures > 0
    /\ consecutive_failures' = 0
    /\ UNCHANGED retry_delay
    /\ UNCHANGED beyondBackoff

NextBackoff ==
    \/ \E jitter \in 0..(MaxRetryDelay \div JitterPercent) :
          subscription_fails(jitter)
    \/ subscription_succeeds

SpecBackoff == Init /\ [][NextBackoff]_vars

\* ------------------------------------------------------------------------
\* The letters stream between the two services: the classifier's events are
\* stamped by Kinesis when they arrive and are handed to process_record in
\* the order of the shard, some time later
\* ------------------------------------------------------------------------
\* The events process_landmark_record can write for a frame
LetterEvents ==
    {LettersRecord("s1", predict_from_landmarks(frame, hand_sign_id, confidence)) :
        frame \in Frames, hand_sign_id \in ClassIds,
        confidence \in ClassifierConfs}

\* LetterPrediction(**data): the fields of an event that process_record reads
LetterPrediction(event) ==
    [session_id |-> event.session_id, event_type |-> event.event_type,
     prediction |-> event.prediction, confidence |-> event.confidence]

\* put_record on the letters stream: the record arrives now.  The queue
\* holds the records as process_record will parse them.
put_letters_event(event) ==
    /\ Len(letters_queue) < MaxQueued
    /\ letters_queue' =
          Append(letters_queue,
                 [event |-> LetterPrediction(event),
                  ApproximateArrivalTimestamp |-> now])
    /\ UNCHANGED <<now, window, word, outbound, step, beyondLettering>>

\* process_record on the oldest record of the shard, at the resolver's clock
ProcessRecordAt(st, record, t) ==
    IF record.event.event_type = "skip"
    THEN ProcessSkipRecord(st, record.event.session_id, t)
    ELSE IF record.event.event_type = "prediction"
            /\ record.event.prediction # ""
    THEN ProcessPredictionRecord(st, record.event.session_id,
                                 record.event.prediction,
                                 record.event.confidence,
                                 record.ApproximateArrivalTimestamp, t)
    ELSE st

process_next_record ==
    /\ letters_queue # <<>>
    /\ LET record == Head(letters_queue)
           st     == ProcessRecordAt(Store, record, now)
       IN  /\ \A s \in Sessions : Len(st.window[s]) <= LettersMaxWindow
           /\ Install(st)
           /\ step' = record.event.event_type
    /\ letters_queue' = Tail(letters_queue)
    /\ UNCHANGED <<now, beyondLettering>>

\* run(): the periodic pause check, at whichever turns of the loop it is due
letters_sweep ==
    /\ \E keys \in ScanOrders(Store) : Install(CheckKeys(Store, keys, now))
    /\ step' = "sweep"
    /\ UNCHANGED <<now, letters_queue, beyondLettering>>

\* Time passes
letters_tick ==
    /\ \E t \in LettersClock :
          /\ t > now
          /\ \A u \in LettersClock : u > now => t <= u
          /\ now' = t
    /\ UNCHANGED <<window, word, outbound, step, letters_queue,
                   beyondLettering>>

NextLetters ==
    \/ \E event \in LetterEvents : put_letters_event(event)
    \/ process_next_record
    \/ letters_sweep
    \/ letters_tick

SpecLetters == Init /\ [][NextLetters]_vars

\* ------------------------------------------------------------------------
\* kb-submit and kb-ingest, one invocation on one event: the loop over
\* event['Records'], with what fails while a record is handled given as
\* input.  The log holds one entry per record the loop reached.
\* ------------------------------------------------------------------------
LogEntry(job_id, result) == [job_id |-> job_id, result |-> result]

\* kb-submit, the body of the loop: a failed start_document_analysis puts
\* the FAILED item and raises, and the handler raises in turn
SubmitRecord(acc, u, textract_ok) ==
    IF acc.raised THEN acc
    ELSE IF is_pdf_file(u.key)
    THEN IF textract_ok
         THEN LET job_id == "textract-" \o ToString(Len(acc.jobs) + 1)
              IN  [acc EXCEPT
                     !.jobs  = Append(@, job_id),
                     !.table = put_item(@, JobItem(job_id, u, "RUNNING")),
                     !.log   = Append(@, LogEntry(job_id, "processed"))]
         ELSE [acc EXCEPT
                 !.table  = put_item(@, JobItem(RequestIdOf(u), u, "FAILED")),
                 !.log    = Append(@, LogEntry(RequestIdOf(u), "failed")),
                 !.raised = TRUE]
    ELSE [acc EXCEPT
            !.table = put_item(@, JobItem(RequestIdOf(u), u, "SUCCEEDED")),
            !.log   = Append(@, LogEntry(RequestIdOf(u), "processed"))]

RECURSIVE SubmitRecords(_, _, _, _)
SubmitRecords(acc, event_records, textract_oks, i) ==
    IF i > Len(event_records) THEN acc
    ELSE SubmitRecords(SubmitRecord(acc, event_records[i], textract_oks[i]),
                       event_records, textract_oks, i + 1)

\* What can happen while kb-ingest handles a message of a job that
\* succeeded: nothing; an exception while extracting, uploading or
\* updating; an exception of the terms-ready publish; the invocation
\* stopping between the INGESTED update and the publish
IngestOutcomes == {"ok", "raises", "publish raises", "stops"}

\* kb-ingest, the body of the loop
IngestRecord(acc, message, outcome) ==
    IF acc.stopped THEN acc
    ELSE IF ~PassesIdempotencyChecks(acc.table, message)
    THEN [acc EXCEPT !.log = Append(@, LogEntry(message.JobId, "skipped"))]
    ELSE IF message.Status # "SUCCEEDED"
    THEN [acc EXCEPT
            !.table = update_item(@, message.JobId, "FAILED",
                                  message.MessageId),
            !.log   = Append(@, LogEntry(message.JobId, "failed"))]
    ELSE IF outcome = "raises"
    THEN [acc EXCEPT !.log = Append(@, LogEntry(message.JobId, "failed"))]
    ELSE LET ingested ==
                 [acc EXCEPT
                    !.table = update_item(@, message.JobId, "INGESTED",
                                          message.MessageId)]
         IN  IF outcome = "stops"
             THEN [ingested EXCEPT
                     !.log = Append(@, LogEntry(message.JobId, "stopped")),
                     !.stopped = TRUE]
             ELSE IF outcome = "publish raises"
             THEN [ingested EXCEPT
                     !.log = Append(@, LogEntry(message.JobId, "processed"))]
             ELSE [ingested EXCEPT
                     !.events = @ \cup {message.JobId},
                     !.log = Append(@, LogEntry(message.JobId, "processed"))]

RECURSIVE IngestRecords(_, _, _, _)
IngestRecords(acc, messages, outcomes, i) ==
    IF i > Len(messages) THEN acc
    ELSE IngestRecords(IngestRecord(acc, messages[i], outcomes[i]),
                       messages, outcomes, i + 1)

\* kb-submit lambda_handler on an S3 event
kb_submit_event(event_records, textract_oks) ==
    LET done == SubmitRecords([table |-> kb_jobs_table, jobs |-> textract_jobs,
                               log |-> <<>>, raised |-> FALSE],
                              event_records, textract_oks, 1)
    IN  /\ Len(done.jobs) <= Cardinality(TextractJobIds)
        /\ kb_jobs_table' = done.table
        /\ textract_jobs' = done.jobs
        /\ offline_batch' =
              [handler |-> "kb-submit", size |-> Len(event_records)]
        /\ offline_log' = done.log
        /\ UNCHANGED <<notifications, terms_ready_events, beyondOffline>>

\* Textract publishes the completion of a job
textract_completes(job_id, status) ==
    /\ TextractCompletes(job_id, status)
    /\ UNCHANGED <<offline_batch, offline_log, terms_ready_events>>

\* kb-ingest lambda_handler on an SQS event
kb_ingest_event(messages, outcomes) ==
    LET done == IngestRecords([table |-> kb_jobs_table,
                               events |-> terms_ready_events,
                               log |-> <<>>, stopped |-> FALSE],
                              messages, outcomes, 1)
    IN  /\ \A i \in DOMAIN messages : messages[i] \in notifications
        /\ \A i, j \in DOMAIN messages : i # j => messages[i] # messages[j]
        /\ kb_jobs_table' = done.table
        /\ terms_ready_events' = done.events
        /\ offline_batch' = [handler |-> "kb-ingest", size |-> Len(messages)]
        /\ offline_log' = done.log
        /\ UNCHANGED <<textract_jobs, notifications, beyondOffline>>

\* The events the two handlers are invoked on
S3Events == SeqsUpTo(Uploads, MaxOfflineBatch) \ {<<>>}

SqsEvents ==
    SeqsUpTo({Notification(job_id, status) :
                 job_id \in TextractJobIds, status \in {"SUCCEEDED", "FAILED"}},
             MaxOfflineBatch) \ {<<>>}

NextOffline ==
    \/ \E event_records \in S3Events,
          textract_oks \in [1..MaxOfflineBatch -> BOOLEAN] :
          kb_submit_event(event_records, textract_oks)
    \/ \E job_id \in TextractJobIds, status \in {"SUCCEEDED", "FAILED"} :
          textract_completes(job_id, status)
    \/ \E messages \in SqsEvents,
          outcomes \in [1..MaxOfflineBatch -> IngestOutcomes] :
          kb_ingest_event(messages, outcomes)

SpecOffline == Init /\ [][NextOffline]_vars

\* SQS delivers the completion of a job again until an invocation handles
\* it without a fault
FairSpecOffline ==
    /\ SpecOffline
    /\ \A job_id \in TextractJobIds :
          WF_vars(kb_ingest_event(<<Notification(job_id, "SUCCEEDED")>>,
                                  [i \in 1..MaxOfflineBatch |-> "ok"]))

\* ------------------------------------------------------------------------
\* Vocabulary of the claims, stated over the stored observations themselves
\* ------------------------------------------------------------------------
\* The observations of a window that may vote
Voters(w) == {i \in DOMAIN w : w[i].confidence >= MinConfidence}

VotersOf(w, c) == {i \in Voters(w) : w[i].char = c}

RECURSIVE SumOver(_, _)
SumOver(w, idx) ==
    IF idx = {} THEN 0
    ELSE LET i == CHOOSE j \in idx : TRUE
         IN  w[i].confidence + SumOver(w, idx \ {i})

\* c holds the largest vote total of the window
IsTopOf(w, c) ==
    /\ VotersOf(w, c) # {}
    /\ \A i \in Voters(w) :
          SumOver(w, VotersOf(w, c)) >= SumOver(w, VotersOf(w, w[i].char))

\* sum(conf)/count >= theta_commit over the voters of c
MeetsConfidence(w, c) ==
    SumOver(w, VotersOf(w, c)) >= CommitMinConfidence * Cardinality(VotersOf(w, c))

\* last_seen - first_seen >= S_ms over the voters of c
MeetsStability(w, c) ==
    \E i, j \in VotersOf(w, c) :
        w[j].timestamp - w[i].timestamp >= StabilityDurationMs

Last(q) == q[Len(q)]

\* The letter sequences that spell a raw word
Spellings(raw_word) ==
    {q \in [1..Len(raw_word) -> Chars] : Join(q) = raw_word}

\* some letter stands more than MaxConsecutiveSame times in a row
HasRun(q) ==
    \E i \in 1..Len(q) :
        /\ i + MaxConsecutiveSame <= Len(q)
        /\ \A k \in i..(i + MaxConsecutiveSame) : q[k] = q[i]

\* The payloads a step has handed to the outbound Lambda
Emitted == {outbound'[i] : i \in (Len(outbound) + 1)..Len(outbound')}

\* ------------------------------------------------------------------------
\* Claims
\* ------------------------------------------------------------------------

PauseElapsed(buffer, t) ==
    /\ buffer.present
    /\ buffer.letters # <<>>
    /\ buffer.last_commit_time # NoTime
    /\ t - buffer.last_commit_time >= PauseDurationMs

StableAWindow ==
    <<LetterEntry("A", 90, 0), LetterEntry("A", 80, 50),
      LetterEntry("A", 90, 100), LetterEntry("A", 90, 150)>>

C7_ReplayIdempotent ==
    [][(deliveries.count = 1 /\ deliveries'.count = 2)
          => \A s \in Sessions : word'[s].letters = word[s].letters]_vars

\* The sequence numbers a shard task has handed to the classifier
Dispatched(sh) == {dispatched[sh][i] : i \in DOMAIN dispatched[sh]}

\* C8. No duplicate delivery within a lifetime: no landmark record is
\* dispatched to the classifier more than once by a shard task.
C8_NoDuplicateDispatch ==
    \A sh \in Shards :
        \A i, j \in DOMAIN dispatched[sh] :
            dispatched[sh][i] = dispatched[sh][j] => i = j

\* C9. Resume after a transient failure: between two events of a live
\* subscription, every record from the first one dispatched up to the
\* subscription's position has been dispatched - none was skipped.
C9_NoRecordSkipped ==
    \A sh \in Shards :
        (pc[sh] = "events" /\ ~shutdown_flag /\ dispatched[sh] # <<>>)
            => \A n \in dispatched[sh][1]..cursor[sh] : n \in Dispatched(sh)

InFrameOrder(q, s) ==
    \A i, j \in 1..Len(q) :
        (i < j /\ q[i].session_id = s /\ q[j].session_id = s)
            => q[i].frame < q[j].frame

\* C11. Per-session ordering end to end: for every session the landmarks
\* stream holds the frames in the order they were received, the letters
\* stream holds their events in that order, and the commit engine
\* processes them in that order, under any interleaving of ingress
\* invocations and shard tasks.
C11_PerSessionOrdering ==
    \A s \in PipelineSessions :
        /\ \A sh \in Shards : InFrameOrder(landmarks_stream[sh], s)
        /\ \A sh \in Shards : InFrameOrder(letters_stream[sh], s)
        /\ InFrameOrder(processed, s)

\* C12. Every shard of the letters stream is owned by the consumer, so
\* that an event is processed whichever shard it lands on.
C12_EveryShardOwned ==
    run_pc = "loop" =>
        \A i \in DOMAIN LettersShards : LettersShards[i] = shard_id

\* C13. A failed get_records call does not end consumption: after it the
\* loop of run() is still turning.
C13_FailedGetRecordsKeepsConsuming ==
    run_step = "get_records failed" => run_pc = "loop"


\* the materializations a notification has caused
MaterializedBy(message_id) ==
    {i \in DOMAIN materializations :
        materializations[i].sns_message_id = message_id}

\* C14. Notification idempotency: an OCR-completion notification causes
\* at most one materialization, even when it is delivered more than once
\* or processed by two ingest invocations at the same time.
C14_NotificationIdempotency ==
    \A job_id \in TextractJobIds :
        Cardinality(MaterializedBy("sns-" \o job_id)) <= 1

\* the job items of an upload (those of a failed start or a failed OCR
\* job set aside), and the materializations of its jobs
JobsOf(u) ==
    {item \in kb_jobs_table :
        item.request_id = RequestIdOf(u) /\ item.status # "FAILED"}

MaterializedFor(u) ==
    {i \in DOMAIN materializations :
        \E item \in JobsOf(u) : item.job_id = materializations[i].job_id}

\* C15. Upload idempotence: the same upload (bucket, key, etag) submitted
\* twice yields one job and one materialization.
C15_UploadIdempotence ==
    \A u \in Uploads :
        submits[u] = 2 =>
            /\ Cardinality(JobsOf(u)) <= 1
            /\ Cardinality(MaterializedFor(u)) <= 1


\* an alias as the claim requires it of a surface
IsValidAliasOf(surface, alias) ==
    /\ levenshtein_distance(Clean(alias), Clean(surface)) <= MaxEditDistance
    /\ confusion_weighted_edit_distance(surface, alias) >= MinAliasScore

\* C16. Alias validity: every alias a persisted for a surface S, in the
\* lexicon or in an alias bundle, has edit_distance(strip(a), strip(S))
\* <= 2 and confusion_score(S, a) >= 0.5, where strip removes spaces and
\* hyphens.
C16_AliasValidity ==
    /\ \A surface \in AliasTerms :
          \A i \in DOMAIN lexicon[surface].aliases :
              IsValidAliasOf(surface, lexicon[surface].aliases[i])
    /\ \A message \in TermsReady :
          \A i \in DOMAIN aliases_bucket[message] :
              IsValidAliasOf(message.terms[1], aliases_bucket[message][i].alias)


\* the entries of the lexicon with a surface
EntriesOf(surface) ==
    {LexiconDocuments[i] : i \in DOMAIN LexiconDocuments} \cap
    {doc \in {LexiconDocuments[i] : i \in DOMAIN LexiconDocuments} :
        doc.surface = surface}

\* C17. Per-user lexicon restriction: every result of a resolution comes
\* from a lexicon entry whose user_id is the user_id of the request, for
\* short raw words (autocomplete) and for longer ones (fuzzy).
C17_PerUserLexicon ==
    \A k \in DOMAIN resolved_words :
        \A i \in DOMAIN resolved_words[k].all_results :
            \E doc \in EntriesOf(resolved_words[k].all_results[i].surface) :
                doc.user_id = resolved_words[k].user_id

\* the confidence an entry stores for an alias
StoredConfidence(doc, alias) ==
    LET i == CHOOSE j \in DOMAIN doc.confidence_scores :
                 doc.confidence_scores[j].alias = alias
    IN  doc.confidence_scores[i].confidence

\* C18. Resolver alias match: a query that is itself a stored alias of an
\* entry is scored with the confidence stored for that alias; the entry
\* AWS with aliases AW6 (0.7), A W S (0.8), AWS (1.0) scores 1.0 on the
\* query AWS and 0.7, matched via AW6, on the query AW6.
C18_ResolverAliasMatch ==
    \A k \in DOMAIN resolved_words :
        \A i \in DOMAIN resolved_words[k].all_results :
            LET result == resolved_words[k].all_results[i]
                query  == resolved_words[k].raw_word
            IN  \A doc \in EntriesOf(result.surface) :
                    (\E j \in DOMAIN doc.aliases : doc.aliases[j] = query)
                        => /\ result.alias_confidence = StoredConfidence(doc, query)
                           /\ result.matched_via = query

\* the code point of a character, and the order of str on two surfaces
CharCode(c) ==
    CASE c = " " -> 32 [] c = "6" -> 54 [] c = "A" -> 65 [] c = "E" -> 69
      [] c = "K" -> 75 [] c = "L" -> 76 [] c = "N" -> 78 [] c = "S" -> 83
      [] c = "W" -> 87 [] OTHER -> 0

RECURSIVE SurfaceAtMost(_, _)
SurfaceAtMost(a, b) ==
    IF a = <<>> THEN TRUE
    ELSE IF b = <<>> THEN FALSE
    ELSE IF Head(a) = Head(b) THEN SurfaceAtMost(Tail(a), Tail(b))
    ELSE CharCode(Head(a)) < CharCode(Head(b))

\* C19. Hybrid order: all_results is sorted by hybrid_score descending,
\* results of equal hybrid_score by surface ascending, whatever order the
\* store returned them in.
C19_HybridOrder ==
    \A k \in DOMAIN resolved_words :
        LET all_results == resolved_words[k].all_results
        IN  \A i \in DOMAIN all_results :
                i < Len(all_results) =>
                    \/ all_results[i].hybrid_score > all_results[i + 1].hybrid_score
                    \/ /\ all_results[i].hybrid_score = all_results[i + 1].hybrid_score
                       /\ SurfaceAtMost(all_results[i].surface,
                                        all_results[i + 1].surface)

\* C20. Every ResolvedWord handed to the outbound worker carries at most
\* five SearchResults.
C20_AtMostFiveResults ==
    \A k \in DOMAIN resolved_words :
        Len(resolved_words[k].all_results) <= TopResults

\* The ResolvedWord handed over last
LastResolved == resolved_words[Len(resolved_words)]

\* A step that hands one more ResolvedWord to the outbound worker
HandsOver == Len(resolved_words') = Len(resolved_words) + 1

\* The ResolvedWord handed over by the step
HandedOver == resolved_words'[Len(resolved_words')]

\* The session's word buffer and window are cleared
Cleared(session_id) ==
    session_state[session_id] = [window |-> <<>>, word |-> NoBuffer]

\* The step leaves the session's word buffer and window cleared
ClearedByStep(session_id) ==
    session_state'[session_id] = [window |-> <<>>, word |-> NoBuffer]

\* C21. Resolver degradation: a word finalized while the lexicon store does
\* not answer is handed to the outbound worker as a ResolvedWord without
\* results that echoes the letters of the buffer, and the session's word
\* buffer and window are cleared by the same finalization; no finalization
\* clears a buffer that holds letters without handing a ResolvedWord over.
C21_ResolverDegradation ==
    [][/\ (HandsOver /\ ~lexicon_store_up) =>
            /\ HandedOver.all_results = <<>>
            /\ HandedOver.raw_word =
                  session_state[HandedOver.session_id].word.letters
            /\ HandedOver.raw_word # <<>>
            /\ ClearedByStep(HandedOver.session_id)
        /\ \A s \in ResolverSessions :
              (session_state[s].word.letters # <<>> /\ ClearedByStep(s)) =>
                  (HandsOver /\ HandedOver.session_id = s)]_vars

\* "AWS" of u1, which the lexicon holds, was finalized while the store was
\* down: it went out unresolved and the session is cleared
C21_Witness ==
    /\ resolved_words # <<>>
    /\ ~lexicon_store_up
    /\ LastResolved.session_id = "u1"
    /\ LastResolved.raw_word = <<"A", "W", "S">>
    /\ LastResolved.all_results = <<>>
    /\ Cleared("u1")

\* A body the ingress is to reject: not JSON, data not of 1662 values, or
\* some value not finite
IsMalformed(body) ==
    \/ ~body.json
    \/ body.count # LandmarkCount
    \/ ~body.finite

\* C22. Ingress validation: a sendlandmarks message whose body is not JSON,
\* whose data does not hold 1662 values, or that holds a non-finite value is
\* answered with a 400-class status, and no record is put for it.
C22_IngressValidation ==
    \A m \in DOMAIN acknowledgements :
        IsMalformed(acknowledgements[m].body) =>
            /\ acknowledgements[m].statusCode \in 400..499
            /\ \A r \in DOMAIN ingress_records :
                  ingress_records[r].message # m

\* A step of run() that puts a skip record through process_record
SkipProcessed == step' = "skip" /\ batch' = batch + 1

\* The step finalizes the word of the session: its ResolvedWord goes out
FinalizedByStep(s) ==
    /\ Len(outbound') = Len(outbound) + 1
    /\ outbound'[Len(outbound')].session_id = s

\* C24 as stated. Skip events do not modify the window: processing a skip
\* event pushes no observation to, and removes no observation from, any
\* session's window.
C24_SkipKeepsWindow ==
    [][SkipProcessed => window' = window]_vars

\* C24, amended. Processing a skip event pushes no observation and prunes
\* none: every window is left as it was, except that the window of a
\* session whose word the pause detector finalizes on that event is cleared.
C24_SkipKeepsWindowUnlessFinalized ==
    [][SkipProcessed =>
          \A s \in Sessions :
              \/ window'[s] = window[s]
              \/ FinalizedByStep(s) /\ window'[s] = <<>>]_vars

\* A skip record was processed, no pause was due, and the window still
\* holds its observations
C24_Witness ==
    /\ step = "skip"
    /\ window["s1"] # <<>>
    /\ word["s1"].letters # <<>>

\* A step of run() that puts a prediction record through process_record
PredictionProcessed == step' = "prediction" /\ batch' = batch + 1

\* The prediction processed by the step left a stable, confident candidate
\* that is the letter committed last for the session, and that commit is
\* older than the dedupe threshold
StableRepeatAfterThreshold(s) ==
    LET candidate == FindTopCandidate(window'[s])
    IN  /\ window'[s] # window[s]
        /\ window'[s] # <<>>
        /\ candidate.found
        /\ PassesConfidenceGate(candidate)
        /\ PassesStabilityGate(candidate)
        /\ word[s].letters # <<>>
        /\ word[s].letters[Len(word[s].letters)] = candidate.char
        /\ now - word[s].last_commit_time > DedupeThresholdMs

\* C28. Double letters: a stable prediction of the letter committed last is
\* committed again once the dedupe threshold (250 ms) has passed since that
\* commit, so that a double letter such as "AA" is accepted.
C28_DoubleLetters ==
    [][PredictionProcessed =>
          \A s \in Sessions :
              StableRepeatAfterThreshold(s) =>
                  word'[s].letters =
                      Append(word[s].letters,
                             FindTopCandidate(window'[s]).char)]_vars

\* A hand is active: some magnitude of its block exceeds 0.01
IsActive(block) ==
    \E i \in DOMAIN block : block[i] > 10 \/ block[i] < -10

SkipEvents == {i \in DOMAIN written : written[i].event_type = "skip"}

PredictionEvents ==
    {i \in DOMAIN written : written[i].event_type = "prediction"}

\* C23. Hand policy: for the frame processed, if its event was written
\* without a failure, both hands active gives exactly one skip event with
\* reason multi_hand and multi_hand = true and no classifier call; neither
\* active gives exactly one skip event with reason no_hands; exactly one
\* active gives exactly one prediction event whose handedness is that hand.
\* No frame gives both a prediction and a skip event.
C23_HandPolicy ==
    LET left  == IsActive(landmark_frame.left)
        right == IsActive(landmark_frame.right)
    IN  /\ SkipEvents = {} \/ PredictionEvents = {}
        /\ (landmark_frame # NoFrame /\ frame_failure = "none") =>
              /\ Len(written) = 1
              /\ (left /\ right) =>
                    /\ written[1].event_type = "skip"
                    /\ written[1].skip_reason = "multi_hand"
                    /\ written[1].multi_hand
                    /\ classifier_calls = 0
              /\ (~left /\ ~right) =>
                    /\ written[1].event_type = "skip"
                    /\ written[1].skip_reason = "no_hands"
                    /\ classifier_calls = 0
              /\ (left /\ ~right) =>
                    /\ written[1].event_type = "prediction"
                    /\ written[1].handedness = "left"
              /\ (right /\ ~left) =>
                    /\ written[1].event_type = "prediction"
                    /\ written[1].handedness = "right"

\* A frame whose left block holds -0.011 and whose right block stays at or
\* below 0.01 was classified as a left hand
C23_Witness ==
    /\ landmark_frame = [left |-> <<0, -11>>, right |-> <<10, 0>>]
    /\ frame_failure = "none"
    /\ Len(written) = 1
    /\ written[1].event_type = "prediction"
    /\ written[1].handedness = "left"
    /\ classifier_calls = 1

\* C29. Backoff cap: the delay slept after a failed subscription, jitter
\* included, never exceeds 60 s.
C29_BackoffCap == retry_delay <= 600

\* A change of a job's status that the claim allows
IsAllowedMove(from, to) ==
    \/ from = to
    \/ from = "RUNNING" /\ to \in {"INGESTED", "FAILED"}
    \/ from = "INGESTED" /\ to \in {"COMPLETED", "FAILED"}
    \/ from = "SUCCEEDED" /\ to = "FAILED"

\* The step writes INGESTED on a job: kb-ingest materializes it
WritesIngested(job_id) ==
    /\ Len(materializations') = Len(materializations) + 1
    /\ materializations'[Len(materializations')].job_id = job_id

C25_WindowMonotonicity ==
    \A s \in Sessions :
        \A i \in 1..(Len(window[s]) - 1) :
            window[s][i].timestamp <= window[s][i + 1].timestamp

\* After a finalization has cleared the window, it holds two observations
\* again, the older one first
C25_Witness ==
    /\ outbound # <<>>
    /\ Len(window["s1"]) = 2
    /\ window["s1"][1].timestamp < window["s1"][2].timestamp

\* A step of the letters runs that puts a prediction through process_letter
LetterProcessed ==
    /\ letters_queue # <<>>
    /\ letters_queue' = Tail(letters_queue)
    /\ Head(letters_queue).event.event_type = "prediction"

\* C26. Window bound: after the prune of process_letter no observation
\* older than now - W_ms is left in the session's window, and the
\* timestamps of a window are never more than W_ms apart.
C26_WindowBound ==
    /\ [](\A s \in Sessions :
            \A i, j \in DOMAIN window[s] :
                window[s][i].timestamp - window[s][j].timestamp
                    <= WindowDurationMs)
    /\ [][LetterProcessed =>
            \A i \in DOMAIN window'["s1"] :
                window'["s1"][i].timestamp >= now - WindowDurationMs]_vars

\* A prediction that had waited on the stream through the silence was
\* pushed and pruned at once: the window is empty though nothing was
\* finalized
C26_Witness ==
    /\ step = "prediction"
    /\ now >= LettersResumeMs
    /\ window["s1"] = <<>>
    /\ outbound = <<>>
    /\ word["s1"].letters = <<>>

\* The configured alphabet
ConfiguredAlphabet ==
    {"0", "1", "2", "3", "4", "5", "6", "7", "8", "9",
     "A", "B", "C", "D", "E", "F", "G", "H", "I", "J", "K", "L", "M",
     "N", "O", "P", "Q", "R", "S", "T", "U", "V", "W", "X", "Y", "Z", "_"}

HasStatus(job_id, status) ==
    \E item \in kb_jobs_table : item.job_id = job_id /\ item.status = status

\* C31. Offline failure handling: whenever the processing of a job fails
\* (OCR cannot be started, the OCR status is not SUCCEEDED, or an exception
\* occurs while extracting, uploading or updating), the job's row is marked
\* FAILED and the remaining messages of the batch are still processed.
C31_OfflineFailureHandling ==
    (\A i \in DOMAIN offline_log : offline_log[i].result # "stopped") =>
        /\ Len(offline_log) = offline_batch.size
        /\ \A i \in DOMAIN offline_log :
              offline_log[i].result = "failed" =>
                  HasStatus(offline_log[i].job_id, "FAILED")

\* C40. Every job that is marked INGESTED has a terms-ready event
\* published for it in the end, also when the publish call fails or the
\* invocation stops between the status update and the publish and the
\* notification is delivered again later.
C40_IngestedIsPublished ==
    \A job_id \in TextractJobIds :
        HasStatus(job_id, "INGESTED") ~> (job_id \in terms_ready_events)

\* The alias differs from the surface by one substitution of the
\* known-confusion set
OneKnownSubstitution(s, a) ==
    /\ Len(a) = Len(s)
    /\ \E i \in DOMAIN s :
          /\ {j \in DOMAIN s : s[j] # a[j]} = {i}
          /\ <<s[i], a[i]>> \in KNOWN_CONFUSION_PAIRS

\* ... by spaces and hyphens only
SpacingOnly(s, a) == a # s /\ Clean(a) = Clean(s)

\* ... by one character deleted or repeated
WithoutChar(s, i) == SubSeq(s, 1, i - 1) \o SubSeq(s, i + 1, Len(s))

WithCharRepeated(s, i) == SubSeq(s, 1, i) \o SubSeq(s, i, Len(s))

OneRepeatedOrDeleted(s, a) ==
    \E i \in DOMAIN s : a = WithoutChar(s, i) \/ a = WithCharRepeated(s, i)

\* ... by its last character deleted or repeated
LastRepeatedOrDeleted(s, a) ==
    /\ s # <<>>
    /\ a = WithoutChar(s, Len(s)) \/ a = WithCharRepeated(s, Len(s))

LettersAndDigits == {"A", "E", "S", "T", "W", "X", "Y", "Z", "6"}

\* What the claim says of an alias in any case: its rejections
RejectedAsRequired(s, a, allowed) ==
    (\/ Len(a) < MinAliasLength
     \/ Len(a) > MaxAliasLength
     \/ \E i \in DOMAIN a : a[i] \notin allowed
     \/ levenshtein_distance(Clean(s), Clean(a)) > MaxEditDistance
     \/ confusion_weighted_edit_distance(s, a) < MinAliasScore)
        => ~validation.is_valid

\* The reference cases
ReferenceCases ==
    /\ (validation.surface = <<"A", "W", "S">>
            /\ validation.alias = <<"A", "W", "6">>)
          => validation.is_valid /\ validation.score > MinAliasScore
    /\ (validation.surface = <<"A", "W", "S">>
            /\ validation.alias = <<"X", "Y", "Z">>)
          => ~validation.is_valid
    /\ (validation.surface = <<"T", "E", "S", "T">>
            /\ validation.alias = <<"Z", "Z", "Z", "Z">>)
          => ~validation.is_valid

LastSeenOf(w, c) ==
    CHOOSE t \in {w[i].timestamp : i \in VotersOf(w, c)} :
        \A i \in VotersOf(w, c) : w[i].timestamp <= t

\* c comes before d where the claim chooses between two characters: the
\* larger total, then the more recent last_seen, then the smaller character
PrecedesInVote(w, c, d) ==
    LET sum_c == SumOver(w, VotersOf(w, c))
        sum_d == SumOver(w, VotersOf(w, d))
    IN  \/ sum_c > sum_d
        \/ sum_c = sum_d /\ LastSeenOf(w, c) > LastSeenOf(w, d)
        \/ /\ sum_c = sum_d
           /\ LastSeenOf(w, c) = LastSeenOf(w, d)
           /\ CharCode(c) <= CharCode(d)

\* C33. Vote selection: the commit candidate is the character with the
\* largest sum of confidence over the window observations whose confidence
\* is at least theta_vote; of two characters with equal sums the one seen
\* last most recently is selected, and the lexicographically smaller one if
\* that is equal too; if no observation passes theta_vote there is no
\* candidate and nothing is committed.
C33_VoteSelection ==
    [][\A s \in Sessions :
          step' = "prediction" =>
              LET w         == window'[s]
                  candidate == FindTopCandidate(w)
              IN  IF Voters(w) = {}
                  THEN ~candidate.found /\ word'[s].letters = word[s].letters
                  ELSE /\ candidate.found
                       /\ \A i \in Voters(w) :
                             PrecedesInVote(w, candidate.char, w[i].char)]_vars

\* An alias as the resolver compares it, its edit distance to a query and
\* the difference of their lengths
Compared(alias) == Clean(upper(alias))

AliasDistance(alias, query) ==
    levenshtein_distance(Compared(alias), Compared(query))

LengthDelta(alias, query) == AbsDiff(Len(Compared(alias)), Len(Compared(query)))

\* C34. Best-alias rule: for each candidate, when no alias equals the query
\* after stripping spaces and hyphens and uppercasing, the alias chosen as
\* matched_via is one with the smallest edit distance to the query, that
\* distance being at most 2 (of several, one with the smallest difference
\* in length); when no alias is within edit distance 2 of the query,
\* alias_confidence is 0.
C34_BestAliasRule ==
    \A k \in DOMAIN resolved_words :
        \A i \in DOMAIN resolved_words[k].all_results :
            LET result == resolved_words[k].all_results[i]
                query  == resolved_words[k].raw_word
            IN  \A doc \in EntriesOf(result.surface) :
                    LET near == {j \in DOMAIN doc.aliases :
                                    AliasDistance(doc.aliases[j], query)
                                        <= BestAliasMaxDistance}
                    IN  (\A j \in DOMAIN doc.aliases :
                            Compared(doc.aliases[j]) # Compared(query))
                        => IF near = {}
                           THEN result.alias_confidence = 0
                           ELSE \E j \in near :
                                  /\ result.matched_via = doc.aliases[j]
                                  /\ \A m \in near :
                                        \/ AliasDistance(doc.aliases[j], query)
                                              < AliasDistance(doc.aliases[m], query)
                                        \/ /\ AliasDistance(doc.aliases[j], query)
                                                = AliasDistance(doc.aliases[m], query)
                                           /\ LengthDelta(doc.aliases[j], query)
                                                <= LengthDelta(doc.aliases[m], query)

\* C35. The user_id of every emitted ResolvedWord is the user_id under
\* which the session's letters were committed by process_letter (in the
\* consumer, the session id), never the placeholder user id that the pause
\* check passes to the get-or-create buffer lookup, whatever the order of
\* prediction, skip and sweep events.
C35_ResolvedWordUserId ==
    \A i \in DOMAIN outbound :
        /\ outbound[i].user_id = outbound[i].session_id
        /\ outbound[i].user_id # "temp"


\* C36. With one thread per shard on the one shared classifier, what a call
\* returns for a landmark record is the model output for that record's own
\* input vector, whatever another shard's call does meanwhile.
C36_ClassifierIsolation ==
    \A i \in DOMAIN inferences :
        LET own == KeyPointClassifier(inferences[i].landmark_list)
        IN  /\ inferences[i].hand_sign_id = own.hand_sign_id
            /\ inferences[i].confidence = own.confidence


RECURSIVE EmittedLetters(_, _)
\* The raw_words emitted for a session, one after the other
EmittedLetters(out, s) ==
    IF out = <<>> THEN ""
    ELSE (IF Head(out).session_id = s THEN Head(out).raw_word ELSE "")
         \o EmittedLetters(Tail(out), s)

\* The letters committed for a session so far, as the emitted words followed
\* by the pending buffer account for them
AccountedLetters(out, buffer, s) == EmittedLetters(out, s) \o Join(buffer.letters)

CommittedByStep(s) ==
    \E c \in Chars : word'[s].letters = Append(word[s].letters, c)

\* The step emits the session's pending word as it stood
FinalizedAsItStood(s) ==
    /\ FinalizedByStep(s)
    /\ outbound'[Len(outbound')].raw_word = Join(word[s].letters)

PushedEntry ==
    LetterEntry(Head(letters_queue).event.prediction,
                Head(letters_queue).event.confidence,
                Head(letters_queue).ApproximateArrivalTimestamp)

\* C39. process_letter commits only if the observation it has just pushed
\* survives the prune of the same call, which is when the record's arrival
\* time is not older than now - W_ms; a record processed more than W_ms after
\* its arrival leaves the window empty and commits nothing.
C39_CommitNeedsFreshRecord ==
    [][LetterProcessed =>
          LET s == Head(letters_queue).event.session_id
              committed == Len(word'[s].letters) = Len(word[s].letters) + 1
          IN  /\ committed =>
                    /\ PushedEntry.timestamp >= now - WindowDurationMs
                    /\ window'[s] # <<>>
                    /\ Last(window'[s]) = PushedEntry
              /\ now - PushedEntry.timestamp > WindowDurationMs =>
                    /\ window'[s] = <<>>
                    /\ ~committed
                    /\ word'[s].letters \in {word[s].letters, <<>>}]_vars

\* C39 witness: no word has been finalized, so nothing has cleared the
\* window, and the prediction record handled last has left it empty: the
\* record was older than the window and the prune took it with everything
\* before it
C39_Witness ==
    /\ step = "prediction"
    /\ outbound = <<>>
    /\ window["s1"] = <<>>
    /\ now <= LettersBurstEndMs

=============================================================================
